---------------------------- MODULE Spec2Model ----------------------------
(***************************************************************************)
(* Declaration injection (lib/Sema/SemaInject.cpp): injection contexts,    *)
(* fragment expansion, single-declaration copy and the effect applicator.  *)
(*                                                                         *)
(* The compiler is single-threaded; the only re-entrancy is an injection   *)
(* started while SubstDecl substitutes a declaration of an enclosing       *)
(* injection.  The call stack is therefore explicit (stack), one frame per *)
(* running ApplyEffects / InjectFragment / CopyDeclaration.                *)
(***************************************************************************)
EXTENDS Integers, Sequences, FiniteSets, TLC

\* The effects handed to ApplyEffects in one behaviour, nested runs included.
MaxEffects == 2
\* Deepest nesting of ApplyEffects runs (1 = no re-entrant injection).
MaxDepth == 2

\* The InjectionContext objects alive at once when the class is driven directly.
MaxCxts == 2

\* The null pointer (a null Decl*, InjectionContext* or Expr*).
nullptr == 0

VARIABLES
  CurContext,               \* Sema::CurContext
  CurrentInjectionContext,  \* Sema::CurrentInjectionContext
  cxts,                     \* the live InjectionContext objects, by address
  members,                  \* each injectee's member list (names of clones)
  invalid,                  \* each injectee's invalid flag
  stack,                    \* the call stack, innermost frame last
  ret,                      \* the last call's return, until the caller reads it
  aborted,                  \* the process has stopped (a failed assertion or a fault)
  handed                    \* how many effects ApplyEffects was handed so far

vars ==
  <<CurContext, CurrentInjectionContext, cxts, members, invalid, stack, ret,
    aborted, handed>>

(***************************************************************************)
(* The program under compilation: declaration contexts and declarations.   *)
(***************************************************************************)

\* Contexts that can receive declarations: translation unit, a class being
\* defined, a function.
Injectees == {"TU", "C", "F"}

\* DeclContext kinds, the four DescribeInjectionTarget tells apart plus the
\* fragment context itself.
ContextKind ==
  [TU |-> "TranslationUnit", C |-> "Record", F |-> "Function",
   cls |-> "Record", nsp |-> "Namespace", base |-> "Record",
   fragC |-> "Fragment", fragN |-> "Fragment"]

isRecord(DC) == ContextKind[DC] = "Record"
isFileContext(DC) == ContextKind[DC] \in {"TranslationUnit", "Namespace"}
isFunctionOrMethod(DC) == ContextKind[DC] = "Function"

\* The declarations reflections can denote.  DC is the declaration's own
\* context (getDeclContext); Body is "none", "defined", "defaulted" or
\* "deleted"; Uses names the fragment placeholder the declaration's
\* initializer refers to ("none" without an initializer).  The class base is
\* a complete class outside any fragment.
SourceDecl ==
  [fld0 |-> [Kind |-> "Field", DC |-> "base", InjectedClassName |-> FALSE,
             LocalStorage |-> FALSE, Access |-> "protected", Body |-> "none",
             Uses |-> "none"],
   dtor |-> [Kind |-> "CXXDestructor", DC |-> "base",
             InjectedClassName |-> FALSE, LocalStorage |-> FALSE,
             Access |-> "public", Body |-> "defined", Uses |-> "none"]] @@
  [icn |-> [Kind |-> "CXXRecord", DC |-> "cls", InjectedClassName |-> TRUE,
            LocalStorage |-> FALSE, Access |-> "public", Body |-> "none",
            Uses |-> "none"],
   fld |-> [Kind |-> "Field", DC |-> "cls", InjectedClassName |-> FALSE,
            LocalStorage |-> FALSE, Access |-> "private", Body |-> "none",
            Uses |-> "p"],
   dfl |-> [Kind |-> "CXXMethod", DC |-> "cls", InjectedClassName |-> FALSE,
            LocalStorage |-> FALSE, Access |-> "none", Body |-> "defaulted",
            Uses |-> "none"],
   var |-> [Kind |-> "Var", DC |-> "nsp", InjectedClassName |-> FALSE,
            LocalStorage |-> FALSE, Access |-> "none", Body |-> "none",
            Uses |-> "none"],
   fn  |-> [Kind |-> "Function", DC |-> "nsp", InjectedClassName |-> FALSE,
            LocalStorage |-> FALSE, Access |-> "none", Body |-> "defined",
            Uses |-> "none"],
   loc |-> [Kind |-> "Var", DC |-> "F", InjectedClassName |-> FALSE,
            LocalStorage |-> TRUE, Access |-> "none", Body |-> "none",
            Uses |-> "none"],
   p   |-> [Kind |-> "Var", DC |-> "fragC", InjectedClassName |-> FALSE,
            LocalStorage |-> FALSE, Access |-> "none", Body |-> "none",
            Uses |-> "none"],
   cls |-> [Kind |-> "CXXRecord", DC |-> "fragC", InjectedClassName |-> FALSE,
            LocalStorage |-> FALSE, Access |-> "none", Body |-> "defined",
            Uses |-> "none"],
   nsp |-> [Kind |-> "Namespace", DC |-> "fragN", InjectedClassName |-> FALSE,
            LocalStorage |-> FALSE, Access |-> "none", Body |-> "none",
            Uses |-> "none"]]

\* decls() of the contexts that are injected from, in declaration order.  A
\* fragment holds its placeholders first, then its content.
decls ==
  [cls |-> <<"icn", "fld", "dfl">>, nsp |-> <<"var", "fn">>,
   fragC |-> <<"p", "cls">>, fragN |-> <<"nsp">>]

\* getDeclName and getType of the declarations.
DeclName ==
  [icn |-> "S", fld |-> "m", dfl |-> "operator=", var |-> "v", fn |-> "f",
   loc |-> "i", p |-> "p", cls |-> "S", nsp |-> "N", fld0 |-> "k",
   dtor |-> "~B"]
DeclType ==
  [icn |-> "S", fld |-> "int", dfl |-> "S&(const S&)", var |-> "long",
   fn |-> "void()", loc |-> "int", p |-> "DependentTy", cls |-> "S",
   nsp |-> "none", fld0 |-> "char", dtor |-> "void()"]

\* A mutation of isInjectedClassName: no declaration is taken for one.
isInjectedClassNameNever(D) == FALSE

isInjectedClassName(D) ==
  SourceDecl[D].Kind = "CXXRecord" /\ SourceDecl[D].InjectedClassName

\* Field types of the closure class of a fragment expression, one per capture.
ReflectionFields ==
  [cls |-> <<"int">>, nsp |-> <<>>, closure2 |-> <<"int", "long">>]

\* Compile-time values a capture can hold.
Values == {"v1", "v2"}

(***************************************************************************)
(* InjectionContext                                                        *)
(***************************************************************************)

\* A fresh context: Prev is the context current at construction.
InjectionContext(Prev, Injectee) ==
  [Prev |-> Prev, Injectee |-> Injectee,
   DeclSubsts |-> <<>>, PlaceholderSubsts |-> <<>>]

\* What the constructor leaves in Sema::CurrentInjectionContext.
ConstructedCurrent(This, Prev) == This

\* A mutation of DestroyedCurrent: the slot is cleared, as if it were a
\* single global slot.
DestroyedCurrentCleared(Cxt) == nullptr

\* What the destructor leaves in Sema::CurrentInjectionContext.
DestroyedCurrent(Cxt) == Cxt.Prev

\* A mutation of RestoredContext: the context entered stays current.
RestoredContextKept(Saved, Cur) == Cur

\* What the ContextRAII "Switch" leaves in Sema::CurContext when it goes out
\* of scope: the context it saved.
RestoredContext(Saved, Cur) == Saved

\* A mutation of try_emplace: the entry is assigned whether present or not.
insert_or_assign(Map, Key, Val) ==
  [K \in DOMAIN Map \cup {Key} |-> IF K = Key THEN Val ELSE Map[K]]

\* try_emplace: inserts only when the key is absent.
try_emplace(Map, Key, Val) ==
  IF Key \in DOMAIN Map THEN Map ELSE Map @@ (Key :> Val)

AddDeclSubstitution(Cxt, Orig, New) ==
  [Cxt EXCEPT !.DeclSubsts = try_emplace(@, Orig, New)]

\* The assertion of AddDeclSubstitution fails.
OverwritesDecl(Cxt, Orig) == Orig \in DOMAIN Cxt.DeclSubsts

AddPlaceholderSubstitution(Cxt, Orig, T, V) ==
  [Cxt EXCEPT !.PlaceholderSubsts =
     try_emplace(@, Orig, [Type |-> T, Value |-> V])]

\* An assertion of AddPlaceholderSubstitution fails.
OverwritesPlaceholder(Cxt, Orig) ==
  \/ SourceDecl[Orig].Kind # "Var"
  \/ Orig \in DOMAIN Cxt.PlaceholderSubsts

\* *PlaceIter and (*FieldIter)->getType() at step I; an iterator that has
\* run off its list yields null.
PlaceAt(Fragment, I) ==
  IF I <= Len(decls[Fragment]) THEN decls[Fragment][I] ELSE "nullptr"
FieldTypeAt(Reflection, I) ==
  IF I <= Len(ReflectionFields[Reflection])
  THEN ReflectionFields[Reflection][I] ELSE "none"

RECURSIVE AddPlaceholderSubstitutionsFrom(_, _, _, _, _)
AddPlaceholderSubstitutionsFrom(Cxt, Fragment, Reflection, Captures, I) ==
  IF I > Len(Captures) THEN Cxt
  ELSE AddPlaceholderSubstitutionsFrom(
         AddPlaceholderSubstitution(Cxt, PlaceAt(Fragment, I),
                                    FieldTypeAt(Reflection, I),
                                    Captures[I]),
         Fragment, Reflection, Captures, I + 1)

\* A mutation of AddPlaceholderSubstitutions: only the first captured value
\* is registered.
AddFirstPlaceholderSubstitution(Cxt, Fragment, Reflection, Captures) ==
  IF Captures = <<>> THEN Cxt
  ELSE AddPlaceholderSubstitution(Cxt, PlaceAt(Fragment, 1),
                                  FieldTypeAt(Reflection, 1), Captures[1])

AddPlaceholderSubstitutions(Cxt, Fragment, Reflection, Captures) ==
  AddPlaceholderSubstitutionsFrom(Cxt, Fragment, Reflection, Captures, 1)

GetDeclReplacement(Cxt, D) ==
  IF D \in DOMAIN Cxt.DeclSubsts THEN Cxt.DeclSubsts[D] ELSE "nullptr"

\* A mutation of GetPlaceholderReplacement: a placeholder the context has no
\* entry for is looked up in the parent context.
GetPlaceholderReplacementInParent(Cxt, D) ==
  LET Found(M) == [Found |-> TRUE, Type |-> M[D].Type, Value |-> M[D].Value]
  IN
  IF D \in DOMAIN Cxt.PlaceholderSubsts THEN Found(Cxt.PlaceholderSubsts)
  ELSE IF Cxt.Prev \in DOMAIN cxts
          /\ D \in DOMAIN cxts[Cxt.Prev].PlaceholderSubsts
  THEN Found(cxts[Cxt.Prev].PlaceholderSubsts)
  ELSE [Found |-> FALSE, Type |-> "none", Value |-> "none"]

\* The replacement expression: a constant expression of the registered type
\* and value, or no replacement.
GetPlaceholderReplacement(Cxt, D) ==
  IF D \in DOMAIN Cxt.PlaceholderSubsts
  THEN [Found |-> TRUE, Type |-> Cxt.PlaceholderSubsts[D].Type,
        Value |-> Cxt.PlaceholderSubsts[D].Value]
  ELSE [Found |-> FALSE, Type |-> "none", Value |-> "none"]


(***************************************************************************)
(* The substitution machinery (SubstDecl and RewriteAsStaticMemberVariable)*)
(***************************************************************************)

\* A null Decl*.
NullDecl ==
  [Null |-> TRUE, Orig |-> "nullptr", Kind |-> "none", DC |-> "none",
   Access |-> "none", Invalid |-> FALSE, Body |-> "none", Val |-> "none",
   Constexpr |-> FALSE, VirtualAsWritten |-> FALSE, Pure |-> FALSE,
   Name |-> "none", Type |-> "none", Storage |-> "none", Init |-> "none"]

\* What a substitution can come to: a valid clone ("ok"), a valid clone of a
\* definition that is itself no definition ("undefined"), a clone marked
\* invalid, or no clone.
SubstOutcomes(D) ==
  {"ok", "invalid", "null"} \cup
  (IF SourceDecl[D].Body = "defined" THEN {"undefined"} ELSE {})

\* D->getInClassInitializer(), named by the placeholder it refers to.
getInClassInitializer(D) ==
  IF SourceDecl[D].Kind = "Field" THEN SourceDecl[D].Uses ELSE "none"

\* The initializer of D after substitution: Init names the declaration whose
\* initializer it was substituted from, Val the value that replaced the
\* placeholder it refers to.
SubstInitializer(D, Cxt) ==
  IF SourceDecl[D].Uses = "none" THEN [Init |-> "none", Val |-> "none"]
  ELSE [Init |-> D,
        Val |-> GetPlaceholderReplacement(Cxt, SourceDecl[D].Uses).Value]

\* The clone of D in Owner.  References to placeholders are resolved against
\* the injection context Cxt, the one current during the substitution.
SubstDecl(D, Owner, Cxt, Outcome) ==
  IF Outcome = "null" THEN NullDecl
  ELSE [Null |-> FALSE, Orig |-> D, Kind |-> SourceDecl[D].Kind, DC |-> Owner,
        Access |-> SourceDecl[D].Access, Invalid |-> (Outcome = "invalid"),
        Body |-> IF Outcome = "undefined" THEN "none" ELSE SourceDecl[D].Body,
        Val |-> SubstInitializer(D, Cxt).Val,
        Constexpr |-> FALSE, VirtualAsWritten |-> FALSE, Pure |-> FALSE,
        Name |-> DeclName[D], Type |-> DeclType[D], Storage |-> "SC_None",
        Init |-> SubstInitializer(D, Cxt).Init]

\* A mutation of RewriteAsStaticMemberVariable: the field is cloned as it is.
RewriteAsField(D, Owner, Cxt, Outcome) == SubstDecl(D, Owner, Cxt, Outcome)

\* A field rebuilt as a static member variable of Owner.  Outcome is what the
\* substitutions come to: "null" when the name or the type does not
\* substitute (no result), "invalid" when the initializer does not (the
\* variable, already added to Owner, is marked invalid), "empty" when it
\* substitutes to no expression, "ok" otherwise.  A field without an
\* in-class initializer has no initializer to substitute.
RewriteAsStaticMemberVariable(D, Owner, Cxt, Outcome) ==
  IF Outcome = "null" THEN NullDecl
  ELSE LET OldInit == getInClassInitializer(D)
           Init == SubstInitializer(D, Cxt)
       IN [Null |-> FALSE, Orig |-> D, Kind |-> "Var", DC |-> Owner,
           Access |-> SourceDecl[D].Access,
           Invalid |-> (OldInit # "none" /\ Outcome = "invalid"),
           Body |-> "none",
           Val |-> IF OldInit # "none" /\ Outcome \notin {"invalid", "empty"}
                   THEN Init.Val ELSE "none",
           Constexpr |-> FALSE, VirtualAsWritten |-> FALSE, Pure |-> FALSE,
           Name |-> DeclName[D], Type |-> DeclType[D],
           Storage |-> "SC_Static",
           Init |-> IF OldInit # "none" /\ Outcome \notin {"invalid", "empty"}
                    THEN Init.Init ELSE "none"]

\* Owner->addDecl(R): both producers add every clone they return.
addDecl(Members, R) == IF R.Null THEN Members ELSE Append(Members, R.Orig)

\* A mutation of CloneFailed: only a null result counts as a failure.
CloneFailedNullOnly(R) == R.Null

\* !R || R->isInvalidDecl()
CloneFailed(R) == R.Null \/ R.Invalid

(***************************************************************************)
(* The injection engine's checks                                           *)
(***************************************************************************)

\* A mutation of CheckInjectionContexts: the file-scope test is missing.
CheckInjectionContextsRecordOnly(Injection, Injectee) ==
  ~(isRecord(Injection) /\ ~isRecord(Injectee))

CheckInjectionContexts(Injection, Injectee) ==
  IF isRecord(Injection) /\ ~isRecord(Injectee) THEN FALSE
  ELSE IF isFileContext(Injection) /\ ~isFileContext(Injectee) THEN FALSE
  ELSE TRUE

\* A mutation of CheckInjectionKind: every declaration passes.
CheckInjectionKindAny(Injection, Injectee) == TRUE

CheckInjectionKind(Injection, Injectee) ==
  ~(/\ SourceDecl[Injection].Kind = "Var"
    /\ SourceDecl[Injection].LocalStorage
    /\ ~isFunctionOrMethod(Injectee))

(***************************************************************************)
(* CopyDeclaration: the modification traits and the steps after cloning    *)
(***************************************************************************)

\* The traits record ("mods") of a reflection value.  Automatic and
\* thread-local storage and the access value Default are asserted
\* unreachable and are not inputs.
AccessMods == {"NoAccess", "Public", "Private", "Protected"}
StorageMods == {"NoStorage", "Static"}
TraitsSet ==
  [Access : AccessMods, Storage : StorageMods, Constexpr : BOOLEAN,
   Virtual : BOOLEAN, Pure : BOOLEAN]

AccessSpecifier ==
  [Public |-> "public", Private |-> "private", Protected |-> "protected"]

isVarDecl(R) == R.Kind = "Var"
isFunctionDecl(R) ==
  R.Kind \in {"Function", "CXXMethod", "CXXConstructor", "CXXDestructor"}
isCXXMethodDecl(R) ==
  R.Kind \in {"CXXMethod", "CXXConstructor", "CXXDestructor"}

\* The result of one step: whether the copy goes on, the clone, the
\* diagnostics emitted, and whether the process faulted.
StepResult(Ok, R, Diags, Crash) ==
  [Ok |-> Ok, R |-> R, Diags |-> Diags, Crash |-> Crash]

\* A mutation of DefaultAccess: every clone in a class is made public.
DefaultAccessPublic(R, InjecteeDC) ==
  IF isRecord(InjecteeDC) THEN [R EXCEPT !.Access = "public"] ELSE R

\* Without an access trait, a clone injected into a class that has no access
\* is made public.
DefaultAccess(R, InjecteeDC) ==
  IF isRecord(InjecteeDC)
  THEN IF R.Access = "none" THEN [R EXCEPT !.Access = "public"] ELSE R
  ELSE R

\* A mutation of ApplyAccess: an explicit access is given only to a clone
\* that has none.
ApplyAccessIfNone(R, Traits, InjecteeDC) ==
  IF Traits.Access # "NoAccess" /\ R.Access = "none"
  THEN IF ~isRecord(R.DC)
       THEN StepResult(FALSE, R, <<"err_modifies_mem_spec_of_non_member">>,
                       FALSE)
       ELSE StepResult(TRUE,
                       [R EXCEPT !.Access = AccessSpecifier[Traits.Access]],
                       <<>>, FALSE)
  ELSE IF isRecord(InjecteeDC) /\ R.Access = "none"
       THEN StepResult(TRUE, [R EXCEPT !.Access = "public"], <<>>, FALSE)
       ELSE StepResult(TRUE, R, <<>>, FALSE)

\* Update access specifiers.
ApplyAccess(R, Traits, InjecteeDC) ==
  IF Traits.Access # "NoAccess"
  THEN IF ~isRecord(R.DC)
       THEN StepResult(FALSE, R, <<"err_modifies_mem_spec_of_non_member">>,
                       FALSE)
       ELSE StepResult(TRUE,
                       [R EXCEPT !.Access = AccessSpecifier[Traits.Access]],
                       <<>>, FALSE)
  ELSE StepResult(TRUE, DefaultAccess(R, InjecteeDC), <<>>, FALSE)

\* The constexpr trait.  In the FunctionDecl branch the code calls
\* setConstexpr through Var, which is null there: undefined behaviour, whose
\* outcome UB is a fault ("crash") or a dropped store ("dropped").
ApplyConstexpr(R, Traits, UB) ==
  IF ~Traits.Constexpr THEN StepResult(TRUE, R, <<>>, FALSE)
  ELSE IF isVarDecl(R)
  THEN StepResult(TRUE, [R EXCEPT !.Constexpr = TRUE], <<>>, FALSE)
  ELSE IF R.Kind = "CXXDestructor"
  THEN StepResult(FALSE, R, <<"err_declration_cannot_be_made_constexpr">>,
                  FALSE)
  ELSE IF isFunctionDecl(R)
  THEN StepResult(TRUE, R, <<>>, UB = "crash")
  ELSE StepResult(FALSE, R, <<"err_virtual_non_function">>, FALSE)

\* The number the pure checks select the diagnostic's text with.
PureErr(R) ==
  IF R.Body = "defaulted" THEN 2
  ELSE IF R.Body = "deleted" THEN 3
  ELSE IF R.Body = "defined" THEN 1
  ELSE 0

\* A mutation of VirtualRequested: make_pure alone asks for the step too.
VirtualOrPureRequested(Traits) == Traits.Virtual \/ Traits.Pure

\* if (Virtual): make_pure is looked at inside only.
VirtualRequested(Traits) == Traits.Virtual

\* A mutation of ApplyVirtual: the pure checks run before the method is
\* marked virtual.
ApplyVirtualPureFirst(R, Traits) ==
  IF ~Traits.Virtual THEN StepResult(TRUE, R, <<>>, FALSE)
  ELSE IF ~isCXXMethodDecl(R)
  THEN StepResult(FALSE, R, <<"err_virtual_non_function">>, FALSE)
  ELSE IF Traits.Pure /\ PureErr(R) # 0
  THEN StepResult(FALSE, R, <<"err_cannot_make_pure_virtual">>, FALSE)
  ELSE StepResult(TRUE, [R EXCEPT !.VirtualAsWritten = TRUE,
                                  !.Pure = Traits.Pure], <<>>, FALSE)

\* The virtual and pure traits.
ApplyVirtual(R, Traits) ==
  IF ~VirtualRequested(Traits) THEN StepResult(TRUE, R, <<>>, FALSE)
  ELSE IF ~isCXXMethodDecl(R)
  THEN StepResult(FALSE, R, <<"err_virtual_non_function">>, FALSE)
  ELSE LET M == [R EXCEPT !.VirtualAsWritten = TRUE] IN
       IF ~Traits.Pure THEN StepResult(TRUE, M, <<>>, FALSE)
       ELSE IF PureErr(M) # 0
       THEN StepResult(FALSE, M, <<"err_cannot_make_pure_virtual">>, FALSE)
       ELSE StepResult(TRUE, [M EXCEPT !.Pure = TRUE], <<>>, FALSE)

\* Whether the clone of a function definition is still to be instantiated.
NeedsDefinition(Injection, R) ==
  /\ isFunctionDecl([Kind |-> SourceDecl[Injection].Kind])
  /\ SourceDecl[Injection].Body # "none"
  /\ R.Body = "none"

\* InstantiateFunctionDefinition on the clone.
InstantiateFunctionDefinition(Injection, R) ==
  [R EXCEPT !.Body = SourceDecl[Injection].Body]

\* CopyDeclaration from the clone onwards.  Value is the value returned,
\* Decls what was appended to the caller's list, Steps the steps that ran.
CopyReturn(Value, R, Decls, Diags, Steps, Crash, Invalidate) ==
  [Value |-> Value, R |-> R, Decls |-> Decls, Diags |-> Diags,
   Steps |-> Steps, Crash |-> Crash, Invalidate |-> Invalidate]

\* A mutation of CopyDeclarationValue: a copy whose own steps succeeded
\* reports success.
CopyDeclarationValueOwn(InjecteeInvalid) == TRUE

\* return !Injectee->isInvalidDecl();
CopyDeclarationValue(InjecteeInvalid) == ~InjecteeInvalid

CopyAfterClone(Result, Traits, Injection, InjecteeDC, InjecteeInvalid, UB) ==
  IF CloneFailed(Result)
  THEN CopyReturn(FALSE, Result, <<>>, <<>>, <<"clone">>, FALSE, TRUE)
  ELSE
  LET A == ApplyAccess(Result, Traits, InjecteeDC) IN
  IF ~A.Ok
  THEN CopyReturn(FALSE, A.R, <<>>, A.Diags, <<"clone", "access">>, FALSE,
                  FALSE)
  ELSE
  LET C == ApplyConstexpr(A.R, Traits, UB) IN
  IF C.Crash \/ ~C.Ok
  THEN CopyReturn(FALSE, C.R, <<>>, C.Diags,
                  <<"clone", "access", "constexpr">>, C.Crash, FALSE)
  ELSE
  LET V == ApplyVirtual(C.R, Traits) IN
  IF ~V.Ok
  THEN CopyReturn(FALSE, V.R, <<>>, V.Diags,
                  <<"clone", "access", "constexpr", "virtual">>, FALSE, FALSE)
  ELSE
  LET Inst == NeedsDefinition(Injection, V.R)
      R == IF Inst THEN InstantiateFunctionDefinition(Injection, V.R)
           ELSE V.R
  IN CopyReturn(CopyDeclarationValue(InjecteeInvalid), R, <<R>>, <<>>,
                <<"clone", "access", "constexpr", "virtual">> \o
                (IF Inst THEN <<"instantiate">> ELSE <<>>) \o <<"update">>,
                FALSE, FALSE)

(***************************************************************************)
(* Inputs, the call stack, and the initial state                           *)
(***************************************************************************)

NoRet == [fn |-> "none"]

EffectKinds == {"InjectionEffect", "DiagnosticEffect"}
EffectSeqs == UNION {[1..N -> EffectKinds] : N \in 0..(MaxEffects - handed)}

\* What the reflection of an injection effect resolves to, and whether the
\* class of its type is a fragment class.
Reflections ==
  {[Injection |-> D, Fragment |-> TRUE] : D \in {"cls", "nsp"}} \cup
  {[Injection |-> D, Fragment |-> FALSE] :
     D \in {"icn", "fld", "dfl", "var", "fn", "loc", "fld0", "dtor"}}

\* The reflections of the effects the effect applicator is run on: both
\* fragments, and the copy of an injected-class-name, of a field and of a
\* local variable.
EngineReflections ==
  {R \in Reflections : R.Injection \in {"cls", "nsp", "icn", "fld", "loc"}}

Top == stack[Len(stack)]
Depth == Cardinality({K \in 1..Len(stack) : stack[K].fn = "ApplyEffects"})
SetTop(F) == [stack EXCEPT ![Len(stack)] = F]
Pop == SubSeq(stack, 1, Len(stack) - 1)

\* The address of the next InjectionContext object.
FreshCxt ==
  CHOOSE I \in 1..(Cardinality(DOMAIN cxts) + 1) : I \notin DOMAIN cxts

\* The context substitution consults: the current one.
CurrentCxt ==
  IF CurrentInjectionContext \in DOMAIN cxts
  THEN cxts[CurrentInjectionContext]
  ELSE InjectionContext(nullptr, CurContext)

Without(F, K) == [X \in DOMAIN F \ {K} |-> F[X]]

Entry ==
  [CurContext |-> CurContext,
   CurrentInjectionContext |-> CurrentInjectionContext]

Before(Injectee) ==
  [members |-> members[Injectee], invalid |-> invalid[Injectee],
   cxts |-> cxts]

Init ==
  /\ CurContext \in Injectees
  /\ CurrentInjectionContext = nullptr
  /\ cxts = <<>>
  /\ members = [X \in Injectees |-> <<>>]
  /\ invalid = [X \in Injectees |-> FALSE]
  /\ stack = <<>>
  /\ ret = NoRet
  /\ aborted = FALSE
  /\ handed = 0

(***************************************************************************)
(* Sema::ApplyEffects                                                      *)
(***************************************************************************)

\* No InjectionInfo is being applied.
NoII == [Reflection |-> "none", Target |-> "none"]

ApplyEffectsFrame(Effects) ==
  [fn |-> "ApplyEffects", pc |-> "loop", Effects |-> Effects, I |-> 1,
   Ok |-> TRUE, Log |-> <<>>, II |-> NoII]

\* The frame while ApplyInjection applies the InjectionInfo read from the
\* effect: its reflection and its explicit target, "none" when there is none.
Calling(F, Refl, Target) ==
  [F EXCEPT !.pc = "call", !.II = [Reflection |-> Refl, Target |-> Target]]

\* A mutation of Accumulate: only the last result counts.
AccumulateLast(Ok, Result) == Result

\* Ok &= <result of the effect>
Accumulate(Ok, Result) == Ok /\ Result

\* A mutation of NextEffect: the loop ends at the first failed effect.
NextEffectUntilFailure(I, Ok, N) == IF Ok THEN I + 1 ELSE N + 1

\* The range-for's advance.
NextEffect(I, Ok, N) == I + 1

\* The frame after effect I returned Result.
Applied(F, Result) ==
  LET Ok == Accumulate(F.Ok, Result) IN
  [F EXCEPT !.Ok = Ok,
            !.Log = Append(@, [I |-> F.I, Kind |-> F.Effects[F.I],
                               Result |-> Result]),
            !.I = NextEffect(F.I, Ok, Len(F.Effects)),
            !.pc = "loop",
            !.II = NoII]

\* The evaluation of a constexpr block hands its effects to ApplyEffects.
StartApplyEffects ==
  /\ ~aborted /\ stack = <<>> /\ ret = NoRet
  /\ \E Effects \in EffectSeqs :
       /\ stack' = <<ApplyEffectsFrame(Effects)>>
       /\ handed' = handed + Len(Effects)
  /\ UNCHANGED <<CurContext, CurrentInjectionContext, cxts, members, invalid,
                 ret, aborted>>

\* ApplyDiagnostic prints the reflected entity and returns true.
ApplyDiagnostic ==
  /\ ~aborted /\ stack # <<>>
  /\ Top.fn = "ApplyEffects" /\ Top.pc = "loop" /\ Top.I <= Len(Top.Effects)
  /\ Top.Effects[Top.I] = "DiagnosticEffect"
  /\ stack' = SetTop(Applied(Top, TRUE))
  /\ UNCHANGED <<CurContext, CurrentInjectionContext, cxts, members, invalid,
                 ret, aborted, handed>>

\* The called injection has returned: Ok &= its result.
ApplyEffectsNext ==
  /\ ~aborted /\ stack # <<>>
  /\ Top.fn = "ApplyEffects" /\ Top.pc = "call"
  /\ ret.fn \in {"ApplyInjection", "InjectFragment", "CopyDeclaration"}
  /\ stack' = SetTop(Applied(Top, ret.Value))
  /\ ret' = NoRet
  /\ UNCHANGED <<CurContext, CurrentInjectionContext, cxts, members, invalid,
                 aborted, handed>>

ApplyEffectsReturn ==
  /\ ~aborted /\ stack # <<>>
  /\ Top.fn = "ApplyEffects" /\ Top.pc = "loop" /\ Top.I > Len(Top.Effects)
  /\ stack' = Pop
  /\ ret' = [fn |-> "ApplyEffects", Value |-> Top.Ok, Log |-> Top.Log,
             Effects |-> Top.Effects]
  /\ UNCHANGED <<CurContext, CurrentInjectionContext, cxts, members, invalid,
                 aborted, handed>>

(***************************************************************************)
(* ApplyInjection, InjectFragment, CopyDeclaration                         *)
(***************************************************************************)

\* A mutation of InjecteeOf: the explicit target is ignored.
InjecteeOfCurrent(Target) == CurContext

\* The injectee of an effect: the explicit target, or the current context.
InjecteeOf(Target) == IF Target = "none" THEN CurContext ELSE Target

\* What a returned InjectFragment or CopyDeclaration leaves for its caller.
\* EntryState and BeforeState are the values at the call.
\* Substs are the substitutions InjectFragment asked for, with their results;
\* Steps the steps of CopyDeclaration that ran, and Result its clone.
Return(Fn, Value, Decls, Diags, Substs, Steps, Result, Injectee, Injection, Traits, EntryState, BeforeState) ==
  [fn |-> Fn, Value |-> Value, Decls |-> Decls, Diags |-> Diags,
   Substs |-> Substs, Steps |-> Steps, Result |-> Result,
   Injectee |-> Injectee, Injection |-> Injection, Traits |-> Traits,
   Entry |-> EntryState, Before |-> BeforeState]

NoTraits ==
  [Access |-> "NoAccess", Storage |-> "NoStorage", Constexpr |-> FALSE,
   Virtual |-> FALSE, Pure |-> FALSE]

\* The limit on the instantiations that may be active at once.
InstantiationDepth == 1

\* The instantiations active: each injection running holds one, unless its
\* own was refused.
ActiveInstantiations ==
  Cardinality({K \in 1..Len(stack) :
                 /\ stack[K].fn \in {"InjectFragment", "CopyDeclaration"}
                 /\ stack[K].pc # "fault"
                 /\ ~stack[K].Inst.Invalid})

\* Sema::InstantiatingTemplate Inst(SemaRef, POI, &InjectionCxt): at the
\* limit the object reports the fatal error, is invalid and is not counted;
\* the injection functions never ask it.
InstantiatingTemplate ==
  [Invalid |-> ActiveInstantiations >= InstantiationDepth,
   Diags |-> IF ActiveInstantiations >= InstantiationDepth
             THEN <<"err_template_recursion_depth_exceeded">> ELSE <<>>]

\* The effect being applied by the ApplyEffects frame on top is an injection.
AtInjectionEffect ==
  /\ ~aborted /\ stack # <<>>
  /\ Top.fn = "ApplyEffects" /\ Top.pc = "loop" /\ Top.I <= Len(Top.Effects)
  /\ Top.Effects[Top.I] = "InjectionEffect"

\* A mutation of InjectFragmentValue: the injectee's state is reported.
InjectFragmentValueChecked(InjecteeInvalid) == ~InjecteeInvalid

\* The value InjectFragment returns after its loop.
InjectFragmentValue(InjecteeInvalid) == TRUE

\* ApplyInjection dispatches to InjectFragment, which runs up to its loop.
EnterInjectFragmentOf(InputReflections) ==
  /\ AtInjectionEffect
  /\ \E Refl \in InputReflections, Target \in {"none"} \cup Injectees :
       LET Injectee == InjecteeOf(Target)
           Injection == Refl.Injection
       IN
       /\ Refl.Fragment
       /\ IF ~CheckInjectionContexts(Injection, Injectee)
          THEN /\ ret' = Return("InjectFragment", FALSE, <<>>,
                                <<"err_invalid_injection">>, <<>>, <<>>,
                                NullDecl, Injectee, Injection, NoTraits,
                                Entry, Before(Injectee))
               /\ stack' = SetTop(Calling(Top, Refl, Target))
               /\ UNCHANGED <<CurContext, CurrentInjectionContext, cxts>>
          ELSE \E Captures \in
                    [1..Len(ReflectionFields[Injection]) -> Values] :
               LET This == FreshCxt
                   C0 == InjectionContext(CurrentInjectionContext, Injectee)
                   C1 == AddDeclSubstitution(C0, Injection, Injectee)
                   C2 == AddPlaceholderSubstitutions(
                           C1, SourceDecl[Injection].DC, Injection, Captures)
               IN
               /\ cxts' = cxts @@ (This :> C2)
               /\ CurrentInjectionContext' =
                    ConstructedCurrent(This, CurrentInjectionContext)
               /\ CurContext' = Injectee
               /\ stack' = Append(
                    SetTop(Calling(Top, Refl, Target)),
                    [fn |-> "InjectFragment", pc |-> "loop",
                     Injectee |-> Injectee, Injection |-> Injection,
                     SavedContext |-> CurContext, Cxt |-> This, I |-> 1,
                     Decls |-> <<>>, Substs |-> <<>>, Reentered |-> FALSE,
                     Entry |-> Entry, Before |-> Before(Injectee),
                     Inst |-> InstantiatingTemplate])
               /\ ret' = NoRet
  /\ UNCHANGED <<members, invalid, aborted, handed>>

\* A mutation of NextMember: a failed member ends the loop.
NextMemberUntilFailure(I, Failed, N) == IF Failed THEN N + 1 ELSE I + 1

\* The loop's advance: "continue" after a failed member as after any other.
NextMember(I, Failed, N) == I + 1

\* One iteration of InjectFragment's loop over the content's members.
InjectFragmentMember ==
  /\ ~aborted /\ stack # <<>>
  /\ Top.fn = "InjectFragment" /\ Top.I <= Len(decls[Top.Injection])
  /\ LET D == decls[Top.Injection][Top.I]
         N == Len(decls[Top.Injection])
     IN
     IF isInjectedClassName(D)
     THEN /\ stack' = SetTop([Top EXCEPT !.I = NextMember(@, FALSE, N),
                                         !.Reentered = FALSE])
          /\ UNCHANGED <<members, invalid>>
     ELSE \E Outcome \in SubstOutcomes(D) :
          LET R == SubstDecl(D, Top.Injectee, CurrentCxt, Outcome)
              S == Append(Top.Substs, [D |-> D, R |-> R])
          IN
          /\ members' = [members EXCEPT ![Top.Injectee] = addDecl(@, R)]
          /\ IF CloneFailed(R)
             THEN /\ invalid' = [invalid EXCEPT ![Top.Injectee] = TRUE]
                  /\ stack' = SetTop([Top EXCEPT !.I = NextMember(@, TRUE, N),
                                                 !.Reentered = FALSE,
                                                 !.Substs = S])
             ELSE /\ invalid' = invalid
                  /\ stack' = SetTop([Top EXCEPT !.I = NextMember(@, FALSE, N),
                                                 !.Reentered = FALSE,
                                                 !.Substs = S,
                                                 !.Decls = Append(@, R)])
  /\ ret' = NoRet
  /\ UNCHANGED <<CurContext, CurrentInjectionContext, cxts, aborted, handed>>

\* The loop is over: the scoped objects are destroyed and the call returns.
InjectFragmentReturn ==
  /\ ~aborted /\ stack # <<>>
  /\ Top.fn = "InjectFragment" /\ Top.I > Len(decls[Top.Injection])
  /\ CurContext' = RestoredContext(Top.SavedContext, CurContext)
  /\ CurrentInjectionContext' = DestroyedCurrent(cxts[Top.Cxt])
  /\ cxts' = Without(cxts, Top.Cxt)
  /\ stack' = Pop
  /\ ret' = Return("InjectFragment",
                   InjectFragmentValue(invalid[Top.Injectee]), Top.Decls,
                   <<>>, Top.Substs, <<>>, NullDecl, Top.Injectee,
                   Top.Injection, NoTraits, Top.Entry, Top.Before)
  /\ UNCHANGED <<members, invalid, aborted, handed>>

\* CopyDeclaration(SemaRef, POI, ReflectionTy, ReflectionVal, Injectee,
\* Injection, Decls) up to the clone.  Callers is the stack of the callers,
\* the innermost waiting for the call to return.
CopyDeclarationCall(Callers, Injectee, Injection) ==
       LET InjectionDC == SourceDecl[Injection].DC
           Early(Value, Diags) ==
             /\ ret' = Return("CopyDeclaration", Value, <<>>, Diags, <<>>,
                              <<>>, NullDecl, Injectee, Injection, NoTraits,
                              Entry, Before(Injectee))
             /\ stack' = Callers
             /\ UNCHANGED <<CurContext, CurrentInjectionContext, cxts>>
       IN
       /\ IF isInjectedClassName(Injection) THEN Early(TRUE, <<>>)
          ELSE IF ~CheckInjectionContexts(InjectionDC, Injectee)
          THEN Early(FALSE, <<"err_invalid_injection">>)
          ELSE IF ~CheckInjectionKind(Injection, Injectee)
          THEN Early(FALSE, <<"err_injecting_local_into_invalid_scope">>)
          ELSE LET This == FreshCxt
                   C0 == InjectionContext(CurrentInjectionContext, Injectee)
                   C1 == AddDeclSubstitution(C0, InjectionDC, Injectee)
               IN
               /\ cxts' = cxts @@ (This :> C1)
               /\ CurrentInjectionContext' =
                    ConstructedCurrent(This, CurrentInjectionContext)
               /\ CurContext' = Injectee
               /\ stack' = Append(
                    Callers,
                    [fn |-> "CopyDeclaration", pc |-> "clone",
                     Injectee |-> Injectee, Injection |-> Injection,
                     SavedContext |-> CurContext, Cxt |-> This,
                     Reentered |-> FALSE, Entry |-> Entry,
                     Before |-> Before(Injectee),
                     Inst |-> InstantiatingTemplate])
               /\ ret' = NoRet

\* ApplyInjection dispatches to CopyDeclaration, which runs up to the clone.
EnterCopyDeclarationOf(InputReflections) ==
  /\ AtInjectionEffect
  /\ \E Refl \in InputReflections, Target \in {"none"} \cup Injectees :
       /\ ~Refl.Fragment
       /\ CopyDeclarationCall(SetTop(Calling(Top, Refl, Target)),
                              InjecteeOf(Target), Refl.Injection)
  /\ UNCHANGED <<members, invalid, aborted, handed>>

\* CopyDeclaration clones the declaration, applies the traits and returns;
\* a fault stops the process where it is.
CopyDeclarationCloneWith(InputTraits) ==
  /\ ~aborted /\ stack # <<>>
  /\ Top.fn = "CopyDeclaration"
  /\ handed' = handed
  /\ \E Traits \in InputTraits, Outcome \in SubstOutcomes(Top.Injection),
        UB \in {"crash", "dropped"} :
       LET Result ==
             IF SourceDecl[Top.Injection].Kind = "Field"
                /\ Traits.Storage = "Static"
             THEN RewriteAsStaticMemberVariable(Top.Injection, Top.Injectee,
                                                CurrentCxt, Outcome)
             ELSE SubstDecl(Top.Injection, Top.Injectee, CurrentCxt, Outcome)
           Invalid == invalid[Top.Injectee] \/ Result.Null \/ Result.Invalid
           T == CopyAfterClone(Result, Traits, Top.Injection, Top.Injectee,
                               Invalid, UB)
       IN
       /\ members' = [members EXCEPT ![Top.Injectee] = addDecl(@, Result)]
       /\ invalid' = [invalid EXCEPT ![Top.Injectee] = @ \/ T.Invalidate]
       /\ IF T.Crash
          THEN /\ aborted' = TRUE
               /\ UNCHANGED <<CurContext, CurrentInjectionContext, cxts,
                              stack, ret>>
          ELSE /\ aborted' = FALSE
               /\ CurContext' = RestoredContext(Top.SavedContext, CurContext)
               /\ CurrentInjectionContext' = DestroyedCurrent(cxts[Top.Cxt])
               /\ cxts' = Without(cxts, Top.Cxt)
               /\ stack' = Pop
               /\ ret' = Return("CopyDeclaration", T.Value, T.Decls, T.Diags,
                                <<>>, T.Steps, T.R, Top.Injectee,
                                Top.Injection, Traits, Top.Entry, Top.Before)

\* The traits of the copies the effect applicator runs: none, and one
\* request for each of the three steps that apply traits.
EngineTraits ==
  {NoTraits,
   [NoTraits EXCEPT !.Access = "Private"],
   [NoTraits EXCEPT !.Constexpr = TRUE],
   [NoTraits EXCEPT !.Virtual = TRUE, !.Pure = TRUE]}

EnterInjectFragment == EnterInjectFragmentOf(EngineReflections)
EnterCopyDeclaration == EnterCopyDeclarationOf(EngineReflections)
CopyDeclarationClone == CopyDeclarationCloneWith(EngineTraits)

\* While SubstDecl substitutes a declaration, the evaluation of one of its
\* constant expressions runs a constexpr block: a nested ApplyEffects.
Reenter ==
  /\ ~aborted /\ stack # <<>>
  /\ Depth < MaxDepth
  /\ \/ /\ Top.fn = "InjectFragment"
        /\ Top.I <= Len(decls[Top.Injection])
        /\ ~isInjectedClassName(decls[Top.Injection][Top.I])
     \/ Top.fn = "CopyDeclaration"
  /\ ~Top.Reentered
  /\ \E Effects \in EffectSeqs :
       /\ stack' = Append(SetTop([Top EXCEPT !.Reentered = TRUE]),
                          ApplyEffectsFrame(Effects))
       /\ handed' = handed + Len(Effects)
  /\ ret' = NoRet
  /\ UNCHANGED <<CurContext, CurrentInjectionContext, cxts, members, invalid,
                 aborted>>

Next ==
  \/ StartApplyEffects
  \/ ApplyDiagnostic
  \/ EnterInjectFragment
  \/ InjectFragmentMember
  \/ InjectFragmentReturn
  \/ EnterCopyDeclaration
  \/ CopyDeclarationClone
  \/ Reenter
  \/ ApplyEffectsNext
  \/ ApplyEffectsReturn

Spec == Init /\ [][Next]_vars

(***************************************************************************)
(* One CopyDeclaration, over every declaration and every traits record     *)
(***************************************************************************)

\* ApplyInjection is handed one injection effect.
StartApplyInjection ==
  /\ ~aborted /\ stack = <<>> /\ ret = NoRet /\ handed = 0
  /\ stack' = <<ApplyEffectsFrame(<<"InjectionEffect">>)>>
  /\ handed' = 1
  /\ UNCHANGED <<CurContext, CurrentInjectionContext, cxts, members, invalid,
                 ret, aborted>>

EnterCopyDeclarationAny == EnterCopyDeclarationOf(Reflections)
CopyDeclarationCloneAny == CopyDeclarationCloneWith(TraitsSet)

NextCopy ==
  \/ StartApplyInjection
  \/ EnterCopyDeclarationAny
  \/ CopyDeclarationCloneAny
  \/ ApplyEffectsNext
  \/ ApplyEffectsReturn

SpecCopy == Init /\ [][NextCopy]_vars

(***************************************************************************)
(* The InjectionContext class, driven by any properly nested sequence of   *)
(* constructions, registrations and destructions                           *)
(***************************************************************************)

\* The declarations registered and the replacements given for them.
CxtOrigs == {"cls", "nsp"}
CxtNews == {"C", "TU"}
CxtPlaceholders == {"p"}

\* The record of a call of one of the class's member functions; Before is
\* what the live contexts held when the object of the call was constructed.
Call(Fn, Cxt, Orig, New, BeforeState) ==
  [fn |-> Fn, Cxt |-> Cxt, Orig |-> Orig, New |-> New, Before |-> BeforeState]

\* InjectionContext Cxt(SemaRef, Injectee): a scoped object is constructed.
Construct ==
  /\ ~aborted /\ Len(stack) < MaxCxts
  /\ LET This == FreshCxt IN
     /\ cxts' = cxts @@
                  (This :> InjectionContext(CurrentInjectionContext, CurContext))
     /\ CurrentInjectionContext' =
          ConstructedCurrent(This, CurrentInjectionContext)
     /\ stack' = Append(stack, [fn |-> "InjectionContext", Cxt |-> This,
                                Before |-> [cxts |-> cxts],
                                Decls |-> {}, Placeholders |-> {}])
     /\ ret' = Call("InjectionContext", This, "none", "none", [cxts |-> cxts])
  /\ UNCHANGED <<CurContext, members, invalid, aborted, handed>>

\* The innermost scoped object goes out of scope.
Destroy ==
  /\ ~aborted /\ stack # <<>>
  /\ CurrentInjectionContext' = DestroyedCurrent(cxts[Top.Cxt])
  /\ cxts' = Without(cxts, Top.Cxt)
  /\ stack' = Pop
  /\ ret' = Call("~InjectionContext", Top.Cxt, "none", "none", Top.Before)
  /\ UNCHANGED <<CurContext, members, invalid, aborted, handed>>

\* A call of AddDeclSubstitution on the innermost object.  When the assertion
\* fails, a build with assertions stops there and one without goes on to
\* try_emplace.
CallAddDeclSubstitution ==
  /\ ~aborted /\ stack # <<>>
  /\ \E Orig \in CxtOrigs, New \in CxtNews :
       /\ ret' = Call("AddDeclSubstitution", Top.Cxt, Orig, New, Top.Before)
       /\ \/ /\ OverwritesDecl(cxts[Top.Cxt], Orig)
             /\ aborted' = TRUE
             /\ UNCHANGED <<cxts, stack>>
          \/ /\ aborted' = FALSE
             /\ cxts' = [cxts EXCEPT
                           ![Top.Cxt] = AddDeclSubstitution(@, Orig, New)]
             /\ stack' = SetTop([Top EXCEPT !.Decls = @ \cup {Orig}])
  /\ UNCHANGED <<CurContext, CurrentInjectionContext, members, invalid, handed>>

\* A call of AddPlaceholderSubstitution on the innermost object.
CallAddPlaceholderSubstitution ==
  /\ ~aborted /\ stack # <<>>
  /\ \E Orig \in CxtPlaceholders, V \in Values :
       /\ ret' = Call("AddPlaceholderSubstitution", Top.Cxt, Orig, V,
                      Top.Before)
       /\ \/ /\ OverwritesPlaceholder(cxts[Top.Cxt], Orig)
             /\ aborted' = TRUE
             /\ UNCHANGED <<cxts, stack>>
          \/ /\ aborted' = FALSE
             /\ cxts' = [cxts EXCEPT
                           ![Top.Cxt] =
                             AddPlaceholderSubstitution(@, Orig, "int", V)]
             /\ stack' = SetTop([Top EXCEPT !.Placeholders = @ \cup {Orig}])
  /\ UNCHANGED <<CurContext, CurrentInjectionContext, members, invalid, handed>>

NextCxt ==
  \/ Construct
  \/ Destroy
  \/ CallAddDeclSubstitution
  \/ CallAddPlaceholderSubstitution

SpecCxt == Init /\ [][NextCxt]_vars

(***************************************************************************)
(* One ApplyInjection, over every InjectionInfo: reflections and targets   *)
(* that resolve and that do not                                            *)
(***************************************************************************)

\* What a reflection can denote besides the declarations above: a type that
\* is no class, and no entity at all.
UnresolvedConstructs == {"int", "invalid"}

\* GetDeclFromReflection: the class of a reflected type or the reflected
\* declaration; without either, the diagnostic and a null result.
GetDeclFromReflection(Reflected) ==
  LET Injection ==
        IF Reflected \in DOMAIN SourceDecl \cup Injectees THEN Reflected
        ELSE "nullptr"
  IN [Decl |-> Injection,
      Diags |-> IF Injection = "nullptr"
                THEN <<"err_reflection_not_a_decl">> ELSE <<>>]

\* The reflections of one effect: those above, and those of a
\* non-fragment type that denote no declaration.
AnyReflections ==
  Reflections \cup
  {[Injection |-> C, Fragment |-> FALSE] : C \in UnresolvedConstructs}

\* if (!Injectee) return false;
InjecteeMissing(Injection, Injectee) == Injectee = "nullptr"

\* ApplyInjection when the reflection or the explicit target does not
\* resolve.  Without an injectee it returns false.  With one, it calls
\* CopyDeclaration with the null injection, which dereferences it: undefined
\* behaviour, a fault or a return of any value.
ApplyInjectionUnresolved ==
  /\ AtInjectionEffect
  /\ \E Refl \in AnyReflections,
        Target \in {"none"} \cup Injectees \cup UnresolvedConstructs :
       LET Injection == GetDeclFromReflection(Refl.Injection)
           Injectee == IF Target # "none" THEN GetDeclFromReflection(Target)
                       ELSE [Decl |-> CurContext, Diags |-> <<>>]
           Diags == Injection.Diags \o Injectee.Diags
       IN
       /\ Injection.Decl = "nullptr" \/ Injectee.Decl = "nullptr"
       /\ IF InjecteeMissing(Injection.Decl, Injectee.Decl)
          THEN /\ ret' = [fn |-> "ApplyInjection", Value |-> FALSE,
                          Diags |-> Diags, Injection |-> Injection.Decl,
                          Injectee |-> Injectee.Decl, Entry |-> Entry]
               /\ stack' = SetTop(Calling(Top, Refl, Target))
               /\ aborted' = FALSE
          ELSE /\ ~Refl.Fragment
               /\ \/ /\ aborted' = TRUE
                     /\ stack' = Append(
                          SetTop(Calling(Top, Refl, Target)),
                          [fn |-> "CopyDeclaration", pc |-> "fault",
                           Injectee |-> Injectee.Decl,
                           Injection |-> Injection.Decl])
                     /\ ret' = NoRet
                  \/ /\ aborted' = FALSE
                     /\ stack' = SetTop(Calling(Top, Refl, Target))
                     /\ \E Value \in BOOLEAN :
                          ret' = Return("CopyDeclaration", Value, <<>>, Diags,
                                        <<>>, <<>>, NullDecl, Injectee.Decl,
                                        Injection.Decl, NoTraits, Entry,
                                        Before(Injectee.Decl))
  /\ UNCHANGED <<CurContext, CurrentInjectionContext, cxts, members, invalid,
                 handed>>

EnterInjectFragmentAny == EnterInjectFragmentOf(Reflections)

NextApply ==
  \/ StartApplyInjection
  \/ ApplyInjectionUnresolved
  \/ EnterInjectFragmentAny
  \/ InjectFragmentMember
  \/ InjectFragmentReturn
  \/ EnterCopyDeclarationAny
  \/ CopyDeclarationCloneAny
  \/ ApplyEffectsNext
  \/ ApplyEffectsReturn

SpecApply == Init /\ [][NextApply]_vars

(***************************************************************************)
(* Properties                                                              *)
(***************************************************************************)

Returned(Fns) == ret.fn \in Fns
Injections == {"InjectFragment", "CopyDeclaration"}

\* The results logged are all true.
AllTrue(Log) == \A K \in 1..Len(Log) : Log[K].Result

\* The log holds effects 1..Len(Log) of Effects, in that order.
InOrder(Log, Effects) ==
  /\ Len(Log) <= Len(Effects)
  /\ \A K \in 1..Len(Log) : Log[K].I = K /\ Log[K].Kind = Effects[K]

\* C1: Sema::ApplyEffects applies every effect of the sequence exactly once,
\* in sequence order, whatever the earlier effects returned, and returns true
\* if and only if every application returned true.  While it runs, the
\* effects applied so far are the ones before the current one.
C1_ApplyEffectsAppliesAll ==
  /\ \A K \in 1..Len(stack) :
       stack[K].fn = "ApplyEffects" =>
         /\ InOrder(stack[K].Log, stack[K].Effects)
         /\ Len(stack[K].Log) = stack[K].I - 1
         /\ stack[K].Ok = AllTrue(stack[K].Log)
  /\ Returned({"ApplyEffects"}) =>
       /\ InOrder(ret.Log, ret.Effects)
       /\ Len(ret.Log) = Len(ret.Effects)
       /\ ret.Value = AllTrue(ret.Log)

\* A run of two effects has returned: the first failed, the second was
\* applied all the same and succeeded, and the run returned false.
C1_Witness ==
  /\ Returned({"ApplyEffects"})
  /\ Len(ret.Log) = 2
  /\ ~ret.Log[1].Result /\ ret.Log[2].Result
  /\ ~ret.Value

\* The substitution S of a member failed: no result, or an invalid one.
FailedSubst(S) == S.R.Null \/ S.R.Invalid

\* InjectFragment has returned after its loop ran.
FragmentExpanded ==
  /\ Returned({"InjectFragment"})
  /\ CheckInjectionContexts(ret.Injection, ret.Injectee)

\* C2: when InjectFragment passes its context-kind check and the substitution
\* of at least one member fails, InjectFragment returns false.
C2_FailedMemberFailsFragment ==
  (FragmentExpanded
   /\ \E K \in 1..Len(ret.Substs) : FailedSubst(ret.Substs[K]))
  => ret.Value = FALSE

RECURSIVE WithoutInjectedClassName(_)
WithoutInjectedClassName(Ds) ==
  IF Ds = <<>> THEN <<>>
  ELSE IF isInjectedClassName(Head(Ds))
  THEN WithoutInjectedClassName(Tail(Ds))
  ELSE <<Head(Ds)>> \o WithoutInjectedClassName(Tail(Ds))

RECURSIVE Successful(_)
Successful(Substs) ==
  IF Substs = <<>> THEN <<>>
  ELSE IF FailedSubst(Head(Substs)) THEN Successful(Tail(Substs))
  ELSE <<Head(Substs).R>> \o Successful(Tail(Substs))

\* C3: InjectFragment substitutes every direct member of the content in
\* declaration order except the injected-class-name; a member whose
\* substitution fails marks the injectee invalid, is left out of the result
\* and does not stop the members after it; the list returned is exactly the
\* successful results, in the order of their source members.
C3_FragmentMembersInOrder ==
  FragmentExpanded =>
    LET Src == WithoutInjectedClassName(decls[ret.Injection]) IN
    /\ Len(ret.Substs) = Len(Src)
    /\ \A K \in 1..Len(Src) : ret.Substs[K].D = Src[K]
    /\ ret.Decls = Successful(ret.Substs)
    /\ (\E K \in 1..Len(ret.Substs) : FailedSubst(ret.Substs[K]))
         => invalid[ret.Injectee]

\* The class fragment was expanded: its injected-class-name was skipped, the
\* substitution of its field failed, and its method, the member after, was
\* substituted and is the one declaration returned.
C3_Witness ==
  /\ FragmentExpanded
  /\ ret.Injection = "cls"
  /\ Len(ret.Substs) = 2
  /\ FailedSubst(ret.Substs[1]) /\ ~FailedSubst(ret.Substs[2])
  /\ Len(ret.Decls) = 1 /\ ret.Decls[1].Orig = "dfl"
  /\ invalid[ret.Injectee]

\* The context the declarations of a returned call come from.
SourceContext(R) ==
  IF R.fn = "InjectFragment" THEN R.Injection ELSE SourceDecl[R.Injection].DC

\* The kinds of the source context Src and of the injectee do not match.
Mismatch(Src, Injectee) ==
  \/ isRecord(Src) /\ ~isRecord(Injectee)
  \/ isFileContext(Src) /\ ~isFileContext(Injectee)

\* This step is the return of a call whose contexts do not match.
MismatchedReturn ==
  /\ ret' # ret
  /\ ret'.fn \in Injections
  /\ Mismatch(SourceContext(ret'), ret'.Injectee)

\* The step is a rejection: the call returns at once with the diagnostic.
RejectedAtOnce ==
  /\ ret'.Value = FALSE
  /\ ret'.Decls = <<>>
  /\ ret'.Diags = <<"err_invalid_injection">>
  /\ cxts' = cxts
  /\ CurrentInjectionContext' = CurrentInjectionContext
  /\ invalid' = invalid
  /\ members' = members
  /\ Len(stack') = Len(stack)

\* C4 as stated: for InjectFragment and CopyDeclaration alike, a mismatch of
\* the context kinds is rejected with the invalid-injection diagnostic: false
\* is returned, no declaration produced, no injection context created, no
\* substitution registered, and the injectee's invalid flag left as it was.
C4_MismatchRejected == [][MismatchedReturn => RejectedAtOnce]_vars

\* C4, amended: the same, except that CopyDeclaration of an
\* injected-class-name returns true before the contexts are compared, with no
\* diagnostic; it too creates no context and changes nothing.
C4_MismatchRejectedUnlessInjectedClassName ==
  [][MismatchedReturn =>
       IF ret'.fn = "CopyDeclaration" /\ isInjectedClassName(ret'.Injection)
       THEN /\ ret'.Value = TRUE /\ ret'.Decls = <<>> /\ ret'.Diags = <<>>
            /\ cxts' = cxts /\ invalid' = invalid /\ members' = members
            /\ CurrentInjectionContext' = CurrentInjectionContext
       ELSE RejectedAtOnce]_vars

\* A namespace fragment was rejected for a class injectee that holds clones
\* of an earlier injection.
C4_Witness ==
  /\ Returned({"InjectFragment"})
  /\ isFileContext(ret.Injection) /\ isRecord(ret.Injectee)
  /\ ret.Diags = <<"err_invalid_injection">>
  /\ members[ret.Injectee] # <<>>

\* CopyDeclaration has returned after it cloned the declaration.
Cloned == Returned({"CopyDeclaration"}) /\ ret.Steps # <<>>

\* The clone is as substitution left it: no trait was applied to it.
Untouched(R) ==
  R.Null \/ /\ R.Access = SourceDecl[R.Orig].Access
            /\ ~R.Constexpr /\ ~R.VirtualAsWritten /\ ~R.Pure

\* C5: CopyDeclaration of a declaration whose clone is null or invalid marks
\* the injectee invalid and returns false at once: no trait is applied,
\* nothing is appended to the result list, and no later step runs.
C5_FailedCloneStopsCopy ==
  (Cloned /\ (ret.Result.Null \/ ret.Result.Invalid)) =>
    /\ ret.Value = FALSE
    /\ invalid[ret.Injectee]
    /\ ret.Decls = <<>>
    /\ ret.Diags = <<>>
    /\ ret.Steps = <<"clone">>
    /\ Untouched(ret.Result)

\* The copy of a method was asked private, virtual and pure, into a class
\* that was valid; the clone came out invalid.
C5_Witness ==
  /\ Cloned
  /\ ret.Result.Invalid /\ ret.Result.Kind = "CXXMethod"
  /\ ret.Traits.Access = "Private" /\ ret.Traits.Virtual /\ ret.Traits.Pure
  /\ ~ret.Before.invalid

\* The contexts currently constructed by SpecCxt, or entered by injections.
Live == {K \in 1..Len(stack) : stack[K].fn # "ApplyEffects"}

\* C6: within one InjectionContext, an original that has an entry never has
\* that entry replaced, whatever AddDeclSubstitution and
\* AddPlaceholderSubstitution calls follow; and the process stops on a failed
\* assertion only in a registration for an original that has an entry.
C6_NeverOverwrites ==
  [][/\ \A C \in DOMAIN cxts \cap DOMAIN cxts' :
          /\ \A O \in DOMAIN cxts[C].DeclSubsts :
               /\ O \in DOMAIN cxts'[C].DeclSubsts
               /\ cxts'[C].DeclSubsts[O] = cxts[C].DeclSubsts[O]
          /\ \A O \in DOMAIN cxts[C].PlaceholderSubsts :
               /\ O \in DOMAIN cxts'[C].PlaceholderSubsts
               /\ cxts'[C].PlaceholderSubsts[O] = cxts[C].PlaceholderSubsts[O]
     /\ (aborted' /\ ~aborted) =>
          \/ /\ ret'.fn = "AddDeclSubstitution"
             /\ ret'.Orig \in DOMAIN cxts[ret'.Cxt].DeclSubsts
          \/ /\ ret'.fn = "AddPlaceholderSubstitution"
             /\ ret'.Orig \in DOMAIN cxts[ret'.Cxt].PlaceholderSubsts
    ]_vars

\* A second registration for an original, with another replacement, went
\* through in a build without assertions: the entry is still the first.
C6_Witness ==
  /\ Returned({"AddDeclSubstitution"})
  /\ ~aborted
  /\ ret.Cxt \in DOMAIN cxts
  /\ ret.Orig \in DOMAIN cxts[ret.Cxt].DeclSubsts
  /\ cxts[ret.Cxt].DeclSubsts[ret.Orig] # ret.New

\* C7: injection contexts form a LIFO stack.  The current context is the
\* most recently constructed one not yet destroyed, each context's parent is
\* the one constructed before it, and with all destroyed the current context
\* is the one from before, none.
C7_ContextsAreLIFO ==
  /\ CurrentInjectionContext =
       (IF stack = <<>> THEN nullptr ELSE Top.Cxt)
  /\ DOMAIN cxts = {stack[K].Cxt : K \in 1..Len(stack)}
  /\ \A K \in 1..Len(stack) :
       cxts[stack[K].Cxt].Prev =
         (IF K = 1 THEN nullptr ELSE stack[K - 1].Cxt)
  /\ \A K, J \in 1..Len(stack) : stack[K].Cxt = stack[J].Cxt => K = J

\* The inner of two contexts was just destroyed: the outer is current again.
C7_Witness ==
  /\ Returned({"~InjectionContext"})
  /\ Len(stack) = 1
  /\ CurrentInjectionContext = stack[1].Cxt
  /\ ret.Cxt # stack[1].Cxt

\* C8: nested contexts have maps of their own.  While an inner context
\* lives, and when it is destroyed, the contexts that were live at its
\* construction hold what they held then; and a lookup in a context, the
\* inner or the outer, returns the replacement registered in that same
\* context or none, never an entry of another context.
C8_NestedContextsIsolated ==
  /\ \A K \in Live :
       /\ \A C \in DOMAIN stack[K].Before.cxts :
            C \in DOMAIN cxts /\ cxts[C] = stack[K].Before.cxts[C]
       /\ \A D \in CxtOrigs :
            LET Cxt == cxts[stack[K].Cxt] IN
            IF D \in stack[K].Decls
            THEN /\ D \in DOMAIN Cxt.DeclSubsts
                 /\ GetDeclReplacement(Cxt, D) = Cxt.DeclSubsts[D]
            ELSE GetDeclReplacement(Cxt, D) = "nullptr"
       /\ \A D \in CxtPlaceholders :
            LET Cxt == cxts[stack[K].Cxt] IN
            IF D \in stack[K].Placeholders
            THEN /\ D \in DOMAIN Cxt.PlaceholderSubsts
                 /\ GetPlaceholderReplacement(Cxt, D) =
                      [Found |-> TRUE, Type |-> Cxt.PlaceholderSubsts[D].Type,
                       Value |-> Cxt.PlaceholderSubsts[D].Value]
            ELSE ~GetPlaceholderReplacement(Cxt, D).Found
  /\ Returned({"~InjectionContext"}) => cxts = ret.Before.cxts

\* Two contexts live: the outer holds a placeholder and a replacement for
\* the namespace, the inner neither, and another replacement for the class.
C8_Witness ==
  /\ Len(stack) = 2
  /\ stack[1].Placeholders = {"p"} /\ stack[2].Placeholders = {}
  /\ stack[1].Decls = {"cls", "nsp"} /\ stack[2].Decls = {"cls"}
  /\ GetDeclReplacement(cxts[stack[1].Cxt], "cls") = "C"
  /\ GetDeclReplacement(cxts[stack[2].Cxt], "cls") = "TU"

\* C9: after InjectFragment or CopyDeclaration returns, by whichever path,
\* Sema's current declaration context and current injection context are the
\* ones that were current before the call.
C9_ContextsRestored ==
  Returned(Injections) =>
    /\ CurContext = ret.Entry.CurContext
    /\ CurrentInjectionContext = ret.Entry.CurrentInjectionContext

\* A copy failed in a trait, after it had made another context current than
\* the one it was called in.
C9_Witness ==
  /\ Cloned
  /\ ret.Diags # <<>>
  /\ ret.Entry.CurContext # ret.Injectee
  /\ CurContext # ret.Injectee

\* C10: the copy of a method with make_virtual and make_pure set, whose clone
\* is defaulted, fails with the cannot-make-pure-virtual diagnostic and
\* leaves the injectee's member list as it was before the copy.
C10_PureOnDefaultedLeavesMembers ==
  (/\ Cloned
   /\ ret.Traits.Virtual /\ ret.Traits.Pure
   /\ ret.Steps[Len(ret.Steps)] = "virtual"
   /\ isCXXMethodDecl(ret.Result) /\ ret.Result.Body = "defaulted")
  => /\ ret.Value = FALSE
     /\ ret.Diags = <<"err_cannot_make_pure_virtual">>
     /\ members[ret.Injectee] = ret.Before.members

\* C11: when the reflection of an injection effect resolves to no
\* declaration, ApplyInjection reports failure with the not-a-declaration
\* diagnostic and neither InjectFragment nor CopyDeclaration is run with the
\* null injection; the same when an explicit injectee does not resolve.
C11_UnresolvedReflectionFails ==
  /\ \A K \in 1..Len(stack) :
       stack[K].fn \in Injections =>
         stack[K].Injection # "nullptr" /\ stack[K].Injectee # "nullptr"
  /\ Returned(Injections) =>
       ret.Injection # "nullptr" /\ ret.Injectee # "nullptr"
  /\ Returned({"ApplyInjection"}) =>
       /\ ret.Value = FALSE
       /\ ret.Diags # <<>>
       /\ \A K \in 1..Len(ret.Diags) :
            ret.Diags[K] = "err_reflection_not_a_decl"

\* The InjectionInfo whose application has just returned.
AppliedII == Top.II

\* C12: ApplyInjection takes as injectee the declaration the explicit target
\* denotes when one is given and Sema's current declaration context
\* otherwise; it dispatches to InjectFragment if and only if the class of the
\* reflection's type is a fragment, to CopyDeclaration otherwise, with the
\* declaration the reflection resolves to; and the value the operation
\* returns is the one the effect contributes to the result of ApplyEffects.
C12_InjecteeAndDispatch ==
  /\ [](Returned(Injections) =>
         /\ Top.fn = "ApplyEffects" /\ Top.pc = "call"
         /\ ret.Injectee = (IF AppliedII.Target # "none" THEN AppliedII.Target
                             ELSE ret.Entry.CurContext)
         /\ (ret.fn = "InjectFragment") = AppliedII.Reflection.Fragment
         /\ (ret.fn = "CopyDeclaration") = ~AppliedII.Reflection.Fragment
         /\ ret.Injection =
              GetDeclFromReflection(AppliedII.Reflection.Injection).Decl)
  /\ [][(Returned(Injections) /\ ret' # ret) =>
          LET F == stack'[Len(stack')] IN
          /\ Len(stack') = Len(stack)
          /\ Len(F.Log) = Len(Top.Log) + 1
          /\ F.Log[Len(F.Log)].Result = ret.Value
          /\ F.Ok = (Top.Ok /\ ret.Value)]_vars

\* A fragment was expanded into an explicit target that is not the current
\* context, and the result, true, was taken into the log of ApplyEffects.
C12_Witness ==
  /\ Returned({"ApplyEffects"})
  /\ Len(ret.Log) = 1 /\ ret.Log[1].Result
  /\ members[CurContext] = <<>>
  /\ \E X \in Injectees : members[X] = <<"var", "fn">>

\* The declaration D is the injected-class-name of a class.
IsICN(D) == D \in DOMAIN SourceDecl /\ SourceDecl[D].InjectedClassName

\* C13: the copy of an injected-class-name returns true and does nothing: no
\* declaration is returned, no diagnostic emitted, no injection context
\* created, and the injectee is as it was; and no injected-class-name is
\* ever among the declarations InjectFragment or CopyDeclaration returns.
C13_InjectedClassNameNeverCopied ==
  /\ [](Returned(Injections) =>
         \A K \in 1..Len(ret.Decls) : ~IsICN(ret.Decls[K].Orig))
  /\ [][(/\ ret' # ret
          /\ ret'.fn = "CopyDeclaration"
          /\ IsICN(ret'.Injection)) =>
          /\ ret'.Value = TRUE
          /\ ret'.Decls = <<>>
          /\ ret'.Diags = <<>>
          /\ cxts' = cxts
          /\ CurrentInjectionContext' = CurrentInjectionContext
          /\ CurContext' = CurContext
          /\ members' = members
          /\ invalid' = invalid
          /\ Len(stack') = Len(stack)]_vars

\* The copy of a class's injected-class-name into the translation unit has
\* returned true.
C13_Witness ==
  /\ Returned({"CopyDeclaration"})
  /\ ret.Injection = "icn" /\ ret.Injectee = "TU"
  /\ ret.Value

\* C14: CopyDeclaration of a variable with local storage into an injectee
\* that is no function or method is rejected: it emits the scope-kind
\* diagnostic and returns false at once, with no declaration produced, no
\* clone made, no context created and the injectee's invalid flag unchanged.
C14_LocalIntoNonFunctionRejected ==
  [][(/\ ret' # ret
      /\ ret'.fn = "CopyDeclaration"
      /\ ret'.Injection \in DOMAIN SourceDecl
      /\ SourceDecl[ret'.Injection].Kind = "Var"
      /\ SourceDecl[ret'.Injection].LocalStorage
      /\ ContextKind[ret'.Injectee] # "Function") =>
      /\ ret'.Value = FALSE
      /\ ret'.Diags = <<"err_injecting_local_into_invalid_scope">>
      /\ ret'.Decls = <<>>
      /\ ret'.Steps = <<>>
      /\ ret'.Result = NullDecl
      /\ cxts' = cxts
      /\ members' = members
      /\ invalid' = invalid
      /\ Len(stack') = Len(stack)]_vars

\* The copy of a local variable into a class was rejected.
C14_Witness ==
  /\ Returned({"CopyDeclaration"})
  /\ ret.Injection = "loc" /\ ret.Injectee = "C"
  /\ ret.Diags = <<"err_injecting_local_into_invalid_scope">>
  /\ ~ret.Value

(***************************************************************************)
(* Fragments: captures and placeholders                                    *)
(***************************************************************************)

\* The longest capture list and the number of fragments started.
MaxCaptures == 2
MaxFragments == 2

\* The local variables with initializers in the scopes around a fragment;
\* x0 is an outer variable shadowed by x.
LocalVars ==
  [x  |-> [Id |-> "x", Type |-> "int"],
   x0 |-> [Id |-> "x", Type |-> "long"],
   n  |-> [Id |-> "n", Type |-> "int"]]

\* ReferenceCaptures builds, for each variable, a reference to it under an
\* lvalue-to-rvalue conversion.
ReferenceCapture(D) ==
  [Class |-> "ImplicitCastExpr", CastKind |-> "CK_LValueToRValue",
   SubExpr |-> [Class |-> "DeclRefExpr", Decl |-> D]]

ReferenceCaptures(Vars) == [I \in 1..Len(Vars) |-> ReferenceCapture(Vars[I])]

\* The variable lists FindCaptures can produce, in discovery order.
RECURSIVE VarLists(_)
VarLists(N) ==
  IF N = 0 THEN {<<>>}
  ELSE VarLists(N - 1) \cup
       {Append(Vs, V) : Vs \in {L \in VarLists(N - 1) : Len(L) = N - 1},
                        V \in DOMAIN LocalVars}

GetVariableFromCapture(E) == E.SubExpr.Decl

\* CXXFragmentDecl::Create(Context, CurContext, Loc)
CXXFragmentDecl(DC) == [Kind |-> "CXXFragment", DC |-> DC, decls |-> <<>>]

\* A placeholder is added only when the fragment has none of that name.
CreatePlaceholderOnce(Frag, E) ==
  LET Id == LocalVars[GetVariableFromCapture(E)].Id IN
  IF \E I \in 1..Len(Frag.decls) : Frag.decls[I].Id = Id THEN Frag
  ELSE [Frag EXCEPT !.decls =
          Append(@, [Kind |-> "Var", Id |-> Id, Type |-> "DependentTy",
                     Storage |-> "SC_Static", Constexpr |-> TRUE,
                     Implicit |-> TRUE, Init |-> "OpaqueValueExpr"])]

\* constexpr auto v = <opaque>; appended to the fragment.
CreatePlaceholder(Frag, E) ==
  LET Var == GetVariableFromCapture(E)
      Id == LocalVars[Var].Id
  IN [Frag EXCEPT !.decls =
        Append(@, [Kind |-> "Var", Id |-> Id, Type |-> "DependentTy",
                   Storage |-> "SC_Static", Constexpr |-> TRUE,
                   Implicit |-> TRUE, Init |-> "OpaqueValueExpr"])]

\* std::for_each over the captures, first to last.
RECURSIVE CreatePlaceholdersFrom(_, _, _)
CreatePlaceholdersFrom(Frag, Captures, I) ==
  IF I > Len(Captures) THEN Frag
  ELSE CreatePlaceholdersFrom(CreatePlaceholder(Frag, Captures[I]),
                              Captures, I + 1)

CreatePlaceholders(Frag, Captures) == CreatePlaceholdersFrom(Frag, Captures, 1)

\* The name of the next fragment declaration created.
FreshFragment == "Fragment" \o ToString(handed + 1)

\* Sema::ActOnStartCXXFragment(S, Loc, Captures); with a scope the fragment
\* becomes the current declaration context.
ActOnStartCXXFragment ==
  /\ handed < MaxFragments
  /\ \E Vars \in VarLists(MaxCaptures), S \in BOOLEAN :
       LET Captures == ReferenceCaptures(Vars)
           Fragment == CreatePlaceholders(CXXFragmentDecl(CurContext), Captures)
       IN
       /\ members' = members @@ (FreshFragment :> Fragment.decls)
       /\ CurContext' = IF S THEN FreshFragment ELSE CurContext
       /\ stack' = IF S THEN Append(stack, [fn |-> "CXXFragment",
                                            Fragment |-> FreshFragment,
                                            DC |-> Fragment.DC])
                   ELSE stack
       /\ ret' = [fn |-> "ActOnStartCXXFragment", Captures |-> Captures,
                  Fragment |-> FreshFragment, S |-> S, Content |-> "nullptr"]
  /\ handed' = handed + 1
  /\ UNCHANGED <<CurrentInjectionContext, cxts, invalid, aborted>>

\* Sema::ActOnFinishCXXFragment(S, Fragment, Content): binds the content
\* unless parsing failed, and leaves the fragment's declaration context.
ActOnFinishCXXFragment ==
  /\ stack # <<>>
  /\ \E Fragment \in {"nullptr", Top.Fragment}, Content \in {"cls", "nsp"} :
       ret' = [fn |-> "ActOnFinishCXXFragment", Captures |-> <<>>,
               Fragment |-> Fragment, S |-> TRUE,
               Content |-> IF Fragment # "nullptr" THEN Content
                           ELSE "nullptr"]
  /\ CurContext' = Top.DC
  /\ stack' = Pop
  /\ UNCHANGED <<CurrentInjectionContext, cxts, members, invalid, aborted,
                 handed>>

NextFragment ==
  \/ ActOnStartCXXFragment
  \/ ActOnFinishCXXFragment

SpecFragment == Init /\ [][NextFragment]_vars

\* C15: a call of ActOnStartCXXFragment with N captures creates a fragment
\* whose members are exactly N placeholders, and the I-th of them has the
\* identifier of the variable that the I-th capture refers to.
C15_PlaceholderPerCapture ==
  [][ret'.fn = "ActOnStartCXXFragment" =>
       LET N == Len(ret'.Captures)
           F == ret'.Fragment
       IN /\ F \notin DOMAIN members
          /\ Len(members'[F]) = N
          /\ \A X \in DOMAIN members : members'[X] = members[X]
          /\ \A I \in 1..N :
               /\ members'[F][I].Implicit
               /\ members'[F][I].Init = "OpaqueValueExpr"
               /\ members'[F][I].Id =
                    LocalVars[ret'.Captures[I].SubExpr.Decl].Id]_vars

\* A fragment started with two captures of different variables of one name.
C15_Witness ==
  /\ ret.fn = "ActOnStartCXXFragment"
  /\ Len(ret.Captures) = 2
  /\ ret.Captures[1].SubExpr.Decl # ret.Captures[2].SubExpr.Decl
  /\ members[ret.Fragment][1].Id = members[ret.Fragment][2].Id

\* CopyDeclaration has returned from a copy of a non-static field that was
\* asked static, after the clone step.
StaticFieldCopy ==
  /\ Cloned
  /\ SourceDecl[ret.Injection].Kind = "Field"
  /\ ret.Traits.Storage = "Static"

AccessCopy ==
  /\ Cloned
  /\ ret.Traits.Access # "NoAccess"
  /\ ~ret.Result.Null /\ ~ret.Result.Invalid

\* C17: CopyDeclaration with an explicit access trait gives a clone in a
\* class exactly that access, whatever the source's; for a clone whose
\* context is no class it emits err_modifies_mem_spec_of_non_member and
\* returns false, and no later step runs.
C17_ExplicitAccessApplied ==
  AccessCopy =>
    IF ContextKind[ret.Result.DC] = "Record"
    THEN /\ ret.Traits.Access = "Public" => ret.Result.Access = "public"
         /\ ret.Traits.Access = "Private" => ret.Result.Access = "private"
         /\ ret.Traits.Access = "Protected" => ret.Result.Access = "protected"
    ELSE /\ ret.Value = FALSE
         /\ ret.Diags = <<"err_modifies_mem_spec_of_non_member">>
         /\ ret.Steps = <<"clone", "access">>
         /\ ret.Decls = <<>>

\* A private field was copied into a class with the access trait public.
C17_Witness ==
  /\ AccessCopy
  /\ ret.Value
  /\ ContextKind[ret.Result.DC] = "Record"
  /\ SourceDecl[ret.Injection].Access = "private"
  /\ ret.Traits.Access = "Public"
  /\ ret.Result.Access = "public"

\* A namespace-scope variable was copied into the translation unit with an
\* explicit access trait.
C17_WitnessNonMember ==
  /\ AccessCopy
  /\ ContextKind[ret.Result.DC] # "Record"
  /\ ret.Diags = <<"err_modifies_mem_spec_of_non_member">>

(***************************************************************************)
(* Injected parameters                                                     *)
(***************************************************************************)

\* The parameters appended over all prototypes, and the prototype scopes
\* nested.
MaxParms == 3
MaxPrototypes == 2

\* The parameters of the reflected functions, with the scope information they
\* were declared with.
SourceParms ==
  [a |-> [Id |-> "a", Type |-> "int", Depth |-> 0, Index |-> 0],
   b |-> [Id |-> "b", Type |-> "long", Depth |-> 0, Index |-> 1],
   c |-> [Id |-> "c", Type |-> "char", Depth |-> 0, Index |-> 0]]

\* Fn->parameters() of the reflected functions; m is a member function.
parameters == [f |-> <<"a", "b">>, m |-> <<"c">>]

\* The namespaces a class template is declared in: cppx::meta, an inline
\* namespace of it and one of that, and a namespace elsewhere with an inline
\* namespace of its own.
Namespaces ==
  [meta   |-> [isInlineNamespace |-> FALSE, getParent |-> "cppx"],
   v1     |-> [isInlineNamespace |-> TRUE, getParent |-> "meta"],
   v2     |-> [isInlineNamespace |-> TRUE, getParent |-> "v1"],
   other  |-> [isInlineNamespace |-> FALSE, getParent |-> "cppx"],
   otherv |-> [isInlineNamespace |-> TRUE, getParent |-> "other"]]

\* SemaRef.RequireCppxMetaNamespace(Loc)
RequireCppxMetaNamespace == "meta"

\* The type of a reflection expression: whether it is a record type, a class
\* template specialization, the namespace that owns it, the template's name,
\* and its first template argument.  A class without an identifier has the
\* name nullptr.
NoArg ==
  [Kind |-> "none", Record |-> FALSE, Name |-> "none", OwnerRecord |-> FALSE,
   OwnerName |-> "none"]
InfoArg(Name, OwnerName) ==
  [Kind |-> "Type", Record |-> TRUE, Name |-> Name, OwnerRecord |-> TRUE,
   OwnerName |-> OwnerName]
ReflectionType(Name, Meta, Arg) ==
  [Record |-> TRUE, Specialization |-> TRUE,
   Owner |-> IF Meta THEN "meta" ELSE "other", Name |-> Name, Arg |-> Arg]

\* The reflection operands of an injected parameter; Decl is the entity the
\* reflection was taken of.
ParmReflections ==
  {[Dependent |-> FALSE, Type |-> T, Decl |-> "f"] :
     T \in {ReflectionType("function", TRUE, NoArg),
            ReflectionType("function", FALSE, NoArg),
            ReflectionType("reflected_tuple", TRUE,
                           InfoArg("parm_info", "function")),
            ReflectionType("reflected_tuple", TRUE,
                           InfoArg("member_info", "function")),
            ReflectionType("reflected_tuple", TRUE,
                           [NoArg EXCEPT !.Kind = "Integral"])}} \cup
  {[Dependent |-> FALSE, Type |-> T, Decl |-> "m"] :
     T \in {ReflectionType("method", TRUE, NoArg),
            ReflectionType("reflected_tuple", TRUE,
                           InfoArg("parm_info", "method"))}} \cup
  {[Dependent |-> FALSE, Type |-> ReflectionType("parameter", TRUE, NoArg),
    Decl |-> P] : P \in {"b", "c"}} \cup
  {[Dependent |-> FALSE,
    Type |-> [ReflectionType("int", FALSE, NoArg) EXCEPT
                !.Record = FALSE, !.Specialization = FALSE],
    Decl |-> "none"],
   [Dependent |-> FALSE,
    Type |-> [ReflectionType("S", FALSE, NoArg) EXCEPT
                !.Specialization = FALSE],
    Decl |-> "none"],
   [Dependent |-> TRUE, Type |-> ReflectionType("T", FALSE, NoArg),
    Decl |-> "none"]}

\* The specialization of a meta class template the expression has for type,
\* or null.
ReferencedReflectionClass(E) ==
  LET Found(B) == [Null |-> ~B, Name |-> E.Type.Name, Arg |-> E.Type.Arg] IN
  IF ~E.Type.Record THEN Found(FALSE)
  ELSE IF ~E.Type.Specialization THEN Found(FALSE)
  ELSE LET Owner == IF Namespaces[E.Type.Owner].isInlineNamespace
                    THEN Namespaces[E.Type.Owner].getParent
                    ELSE E.Type.Owner
       IN IF Owner # RequireCppxMetaNamespace THEN Found(FALSE)
          ELSE Found(TRUE)

\* Whether the expression reflects a function or the parameters of one.
ReferencesFunction(E) ==
  LET Class == ReferencedReflectionClass(E) IN
  IF Class.Null THEN FALSE
  ELSE IF Class.Name = "function" THEN TRUE
  ELSE IF Class.Name = "reflected_tuple"
  THEN IF Class.Arg.Kind # "Type" THEN FALSE
       ELSE IF ~Class.Arg.Record THEN FALSE
       ELSE IF Class.Arg.Name # "parm_info" THEN FALSE
       ELSE IF ~Class.Arg.OwnerRecord THEN FALSE
       ELSE IF Class.Arg.OwnerName # "function"
               /\ Class.Arg.OwnerName # "method"
       THEN FALSE
       ELSE TRUE
  ELSE FALSE

\* Whether the expression reflects a parameter.
ReferencesParameter(E) ==
  LET Class == ReferencedReflectionClass(E) IN
  IF Class.Null THEN FALSE
  ELSE Class.Name = "parameter"

\* EvaluateReflection(RefTy, Loc).getAsDeclaration()
EvaluateReflection(E) == E.Decl

\* A mutation of CloneParameter: the clone keeps the scope information of
\* the parameter it is cloned from.
CloneParameterInPlace(Orig, ScopeDepth, ScopeIndex) ==
  [Id |-> SourceParms[Orig].Id, Type |-> SourceParms[Orig].Type,
   Depth |-> SourceParms[Orig].Depth, Index |-> SourceParms[Orig].Index,
   Injected |-> TRUE, Orig |-> Orig]

\* ParmVarDecl::Create from the original's identifier and type,
\* setScopeInfo from the current scope, setInjected.
CloneParameter(Orig, ScopeDepth, ScopeIndex) ==
  [Id |-> SourceParms[Orig].Id, Type |-> SourceParms[Orig].Type,
   Depth |-> ScopeDepth, Index |-> ScopeIndex, Injected |-> TRUE,
   Orig |-> Orig]

\* The chunk pushed for a parameter declaration.
ParamInfo(Ident, Param) == [Ident |-> Ident, Param |-> Param]

\* The loop over Fn->parameters(): every clone takes the scope's next index.
RECURSIVE CloneParameters(_, _, _, _)
CloneParameters(Origs, ScopeDepth, ScopeIndex, I) ==
  IF I > Len(Origs) THEN <<>>
  ELSE LET New == CloneParameter(Origs[I], ScopeDepth, ScopeIndex) IN
       <<ParamInfo(New.Id, New)>> \o
       CloneParameters(Origs, ScopeDepth, ScopeIndex + 1, I + 1)

\* The parser enters the prototype scope of a function declarator.
EnterFunctionPrototypeScope ==
  /\ Len(stack) < MaxPrototypes
  /\ stack' = Append(stack, [fn |-> "FunctionPrototypeScope",
                             PrototypeDepth |-> Len(stack) + 1,
                             PrototypeIndex |-> 0, Parms |-> <<>>])
  /\ ret' = NoRet
  /\ UNCHANGED <<CurContext, CurrentInjectionContext, cxts, members, invalid,
                 aborted, handed>>

\* The parser leaves it.
ExitFunctionPrototypeScope ==
  /\ stack # <<>>
  /\ stack' = Pop
  /\ ret' = NoRet
  /\ UNCHANGED <<CurContext, CurrentInjectionContext, cxts, members, invalid,
                 aborted, handed>>

\* A parameter written in the declarator takes the scope's next index.
HandWrittenParameter ==
  /\ stack # <<>> /\ handed < MaxParms
  /\ stack' = SetTop([Top EXCEPT
       !.PrototypeIndex = @ + 1,
       !.Parms = Append(@, ParamInfo("h",
                   [Id |-> "h", Type |-> "int",
                    Depth |-> Top.PrototypeDepth - 1,
                    Index |-> Top.PrototypeIndex, Injected |-> FALSE,
                    Orig |-> "none"]))])
  /\ handed' = handed + 1
  /\ ret' = NoRet
  /\ UNCHANGED <<CurContext, CurrentInjectionContext, cxts, members, invalid,
                 aborted>>

\* Sema::ActOnCXXInjectedParameter(Loc, Reflection, II, Parms) in the current
\* prototype scope.
ActOnCXXInjectedParameter ==
  /\ stack # <<>> /\ handed < MaxParms
  /\ \E Reflection \in ParmReflections, II \in {"q"} :
       LET ScopeDepth == Top.PrototypeDepth
           ScopeIndex == Top.PrototypeIndex
           Added ==
             IF Reflection.Dependent
             THEN <<ParamInfo("nullptr",
                      [Id |-> II, Type |-> "InjectedParmType",
                       Depth |-> ScopeDepth, Index |-> ScopeIndex,
                       Injected |-> FALSE,
                       Orig |-> "none"])>>
             ELSE IF ReferencesFunction(Reflection)
             THEN CloneParameters(parameters[EvaluateReflection(Reflection)],
                                  ScopeDepth, ScopeIndex, 1)
             ELSE IF ReferencesParameter(Reflection)
             THEN LET New == CloneParameter(EvaluateReflection(Reflection),
                                            ScopeDepth, ScopeIndex)
                  IN <<ParamInfo(New.Id, New)>>
             ELSE <<>>
           Ok == \/ Reflection.Dependent
                 \/ ReferencesFunction(Reflection)
                 \/ ReferencesParameter(Reflection)
       IN
       /\ stack' = SetTop([Top EXCEPT !.PrototypeIndex = @ + Len(Added),
                                      !.Parms = @ \o Added])
       /\ handed' = handed + Len(Added)
       /\ ret' = [fn |-> "ActOnCXXInjectedParameter", Value |-> Ok,
                  Reflection |-> Reflection,
                  Diags |-> IF Ok THEN <<>>
                            ELSE <<"err_compiler_error: invalid parameter">>,
                  Scope |-> Top]
  /\ UNCHANGED <<CurContext, CurrentInjectionContext, cxts, members, invalid,
                 aborted>>

NextParm ==
  \/ EnterFunctionPrototypeScope
  \/ ExitFunctionPrototypeScope
  \/ HandWrittenParameter
  \/ ActOnCXXInjectedParameter

SpecParm == Init /\ [][NextParm]_vars

\* What a non-dependent reflection denotes: a whole function or the
\* parameter-info tuple of one, a single parameter, or anything else.
InMeta(E) ==
  \/ E.Type.Owner = "meta"
  \/ /\ Namespaces[E.Type.Owner].isInlineNamespace
     /\ Namespaces[E.Type.Owner].getParent = "meta"
DenotesFunction(E) ==
  /\ E.Type.Record /\ E.Type.Specialization /\ InMeta(E)
  /\ \/ E.Type.Name = "function"
     \/ /\ E.Type.Name = "reflected_tuple"
        /\ E.Type.Arg.Kind = "Type" /\ E.Type.Arg.Name = "parm_info"
        /\ E.Type.Arg.OwnerName \in {"function", "method"}
DenotesParameter(E) ==
  /\ E.Type.Record /\ E.Type.Specialization /\ InMeta(E)
  /\ E.Type.Name = "parameter"

\* The originals a reflection stands for, in declaration order.
Originals(E) ==
  IF DenotesFunction(E) THEN parameters[E.Decl]
  ELSE IF DenotesParameter(E) THEN <<E.Decl>>
  ELSE <<>>

\* The call that has just returned, and the chunks it appended.
InjectedParameterCall ==
  ret.fn = "ActOnCXXInjectedParameter" /\ ~ret.Reflection.Dependent
AppendedParms == SubSeq(Top.Parms, Len(ret.Scope.Parms) + 1, Len(Top.Parms))

\* C18: ActOnCXXInjectedParameter with a non-dependent reflection appends
\* one clone per original parameter the reflection stands for (all those of
\* a function, the one of a parameter), in order, each with the original's
\* identifier and type and marked injected, each with the depth of the scope
\* being built and the indices that scope hands out next; for any other
\* reflection it emits the error, returns false and appends nothing.  The
\* parameters already in the list stay.
C18_InjectedParametersCloned ==
  InjectedParameterCall =>
    LET Origs == Originals(ret.Reflection)
        New == AppendedParms
    IN
    /\ SubSeq(Top.Parms, 1, Len(ret.Scope.Parms)) = ret.Scope.Parms
    /\ Len(New) = Len(Origs)
    /\ \A I \in 1..Len(New) :
         /\ New[I].Param.Id = SourceParms[Origs[I]].Id
         /\ New[I].Param.Type = SourceParms[Origs[I]].Type
         /\ New[I].Param.Injected
         /\ New[I].Param.Depth = ret.Scope.PrototypeDepth
         /\ New[I].Param.Index = ret.Scope.PrototypeIndex + I - 1
    /\ Top.PrototypeIndex = ret.Scope.PrototypeIndex + Len(New)
    /\ ret.Value = (DenotesFunction(ret.Reflection)
                      \/ DenotesParameter(ret.Reflection))
    /\ ~ret.Value => /\ ret.Diags # <<>>
                     /\ New = <<>>

\* The two parameters of a function were cloned after a hand-written
\* parameter: their depth and indices are not those they were declared with.
C18_Witness ==
  /\ InjectedParameterCall
  /\ Len(AppendedParms) = 2
  /\ Len(ret.Scope.Parms) = 1
  /\ AppendedParms[1].Param.Index = 1 /\ AppendedParms[2].Param.Index = 2
  /\ AppendedParms[1].Param.Index # SourceParms["a"].Index
  /\ AppendedParms[1].Param.Depth # SourceParms["a"].Depth

\* CopyDeclaration has returned from a copy with make_constexpr set that
\* went as far as the constexpr step.
ConstexprCopy ==
  /\ Cloned
  /\ ret.Traits.Constexpr
  /\ Len(ret.Steps) >= 3

\* The process faulted inside CopyDeclaration.
FaultedInCopy ==
  aborted /\ stack # <<>> /\ Top.fn = "CopyDeclaration"

\* C19: with make_constexpr set, the copy of a function that is no
\* destructor never faults and marks the clone constexpr; the copy of a
\* destructor is rejected with err_declration_cannot_be_made_constexpr.
C19_ConstexprFunctionMarked ==
  /\ ~FaultedInCopy
  /\ (ConstexprCopy /\ ret.Result.Kind \in {"Function", "CXXMethod"}
        /\ Len(ret.Steps) > 3) => ret.Result.Constexpr
  /\ (ConstexprCopy /\ ret.Result.Kind = "CXXDestructor") =>
       /\ ret.Value = FALSE
       /\ ret.Diags = <<"err_declration_cannot_be_made_constexpr">>
       /\ ret.Steps = <<"clone", "access", "constexpr">>

\* The halves of C19 the code keeps: the destructor is rejected.
C19_DestructorRejected ==
  (ConstexprCopy /\ ret.Result.Kind = "CXXDestructor") =>
    /\ ret.Value = FALSE
    /\ ret.Diags = <<"err_declration_cannot_be_made_constexpr">>
    /\ ret.Steps = <<"clone", "access", "constexpr">>

\* The copy of a function with make_constexpr went past the constexpr step
\* and the clone is not constexpr.
C19_FunctionNotMarked ==
  /\ ConstexprCopy /\ ret.Result.Kind = "Function" /\ ret.Value
  /\ ~ret.Result.Constexpr

(***************************************************************************)
(* AddPlaceholderSubstitutions, called on a new context with any fragment  *)
(* and any captured values                                                 *)
(***************************************************************************)

\* The fragments a context is filled from.
Fragments == {"fragC", "fragN"}

\* An iterator runs off the fragment's members.
RunsOffFragment(Fragment, Captures) == Len(Captures) > Len(decls[Fragment])

\* An assertion of AddPlaceholderSubstitution fails at some step: the member
\* taken for a placeholder is no variable.
PlaceholderAssertionFails(Fragment, Captures) ==
  \E I \in 1..Len(Captures) :
    \/ PlaceAt(Fragment, I) = "nullptr"
    \/ /\ PlaceAt(Fragment, I) # "nullptr"
       /\ SourceDecl[PlaceAt(Fragment, I)].Kind # "Var"

\* InjectionCxt.AddPlaceholderSubstitutions(Fragment, Class, Captures) on the
\* innermost context, which holds no placeholder yet.  Captures are the
\* fields of a value of the class.  Where an assertion fails, a build with
\* assertions stops and one without goes on; running an iterator off the
\* fragment's members is undefined behaviour, a fault or a null member.
CallAddPlaceholderSubstitutions ==
  /\ ~aborted /\ stack # <<>>
  /\ DOMAIN cxts[Top.Cxt].PlaceholderSubsts = {}
  /\ \E Fragment \in Fragments, Reflection \in DOMAIN ReflectionFields :
       \E Captures \in [1..Len(ReflectionFields[Reflection]) -> Values] :
         /\ ret' = [fn |-> "AddPlaceholderSubstitutions", Cxt |-> Top.Cxt,
                    Fragment |-> Fragment, Reflection |-> Reflection,
                    Captures |-> Captures, Before |-> Top.Before]
         /\ \/ /\ \/ RunsOffFragment(Fragment, Captures)
                  \/ PlaceholderAssertionFails(Fragment, Captures)
               /\ aborted' = TRUE
               /\ UNCHANGED <<cxts, stack>>
            \/ /\ aborted' = FALSE
               /\ cxts' = [cxts EXCEPT
                    ![Top.Cxt] = AddPlaceholderSubstitutions(
                                   @, Fragment, Reflection, Captures)]
               /\ stack' = SetTop([Top EXCEPT !.Placeholders =
                      DOMAIN cxts'[Top.Cxt].PlaceholderSubsts])
  /\ UNCHANGED <<CurContext, CurrentInjectionContext, members, invalid, handed>>

NextPlaceholders ==
  \/ Construct
  \/ Destroy
  \/ CallAddPlaceholderSubstitutions

SpecPlaceholders == Init /\ [][NextPlaceholders]_vars

\* The number of placeholders of a fragment: its members that are variables.
NumPlaceholders(Fragment) ==
  Cardinality({I \in 1..Len(decls[Fragment]) :
                 SourceDecl[decls[Fragment][I]].Kind = "Var"})

\* AddPlaceholderSubstitutions was called and the process went on.
PlaceholdersAdded ==
  ret.fn = "AddPlaceholderSubstitutions" /\ ~aborted

\* The I-th member of the fragment is registered with the type of the I-th
\* field and the I-th captured value, for every I, and nothing else is.
PairedPositionally ==
  LET N == Len(ret.Captures)
      M == cxts[ret.Cxt].PlaceholderSubsts
  IN /\ DOMAIN M = {decls[ret.Fragment][I] : I \in 1..N}
     /\ Cardinality(DOMAIN M) = N
     /\ \A I \in 1..N :
          M[decls[ret.Fragment][I]] =
            [Type |-> ReflectionFields[ret.Reflection][I],
             Value |-> ret.Captures[I]]

\* C20: AddPlaceholderSubstitutions registers the I-th member of the fragment
\* with the type of the I-th field of the reflected class and the I-th
\* captured value, as many entries as there are captured values; and with a
\* number of captured values that is not the fragment's number of
\* placeholders the call does not go through: the process stops on the
\* violated contract.
C20_PairedAndMismatchDetected ==
  /\ (PlaceholdersAdded
        /\ Len(ret.Captures) <= Len(decls[ret.Fragment])) => PairedPositionally
  /\ (ret.fn = "AddPlaceholderSubstitutions"
        /\ Len(ret.Captures) # NumPlaceholders(ret.Fragment)) => aborted

\* The half of C20 the code keeps: the positional pairing, whenever the
\* fragment has a member for every captured value.
C20_PairedPositionally ==
  (PlaceholdersAdded /\ Len(ret.Captures) <= Len(decls[ret.Fragment]))
    => PairedPositionally

\* A call with no captured value for a fragment that has a placeholder went
\* through, and the placeholder has no substitution.
C20_FewerCapturesUndetected ==
  /\ PlaceholdersAdded
  /\ Len(ret.Captures) < NumPlaceholders(ret.Fragment)
  /\ DOMAIN cxts[ret.Cxt].PlaceholderSubsts = {}

\* A call with more captured values than placeholders went through: the
\* fragment's content is registered as a placeholder.
C20_MoreCapturesUndetected ==
  /\ PlaceholdersAdded
  /\ Len(ret.Captures) > NumPlaceholders(ret.Fragment)
  /\ "cls" \in DOMAIN cxts[ret.Cxt].PlaceholderSubsts

\* CopyDeclaration has returned with a clone that was neither null nor
\* invalid: the trait steps ran on it.
TraitsCopy == Cloned /\ ~ret.Result.Null /\ ~ret.Result.Invalid

\* The body of the clone when the trait steps ran: a definition instantiated
\* afterwards was not there yet.
BodyAtTraits ==
  IF \E K \in 1..Len(ret.Steps) : ret.Steps[K] = "instantiate" THEN "none"
  ELSE ret.Result.Body

\* Whether each trait step rejects the clone it is given, told from the
\* traits and from what the steps leave alone (kind, context and body).
AccessRejects ==
  ret.Traits.Access # "NoAccess" /\ ContextKind[ret.Result.DC] # "Record"
ConstexprRejects ==
  /\ ret.Traits.Constexpr
  /\ ret.Result.Kind \notin {"Var", "Function", "CXXMethod", "CXXConstructor"}
VirtualRejects ==
  /\ ret.Traits.Virtual
  /\ \/ ret.Result.Kind \notin {"CXXMethod", "CXXConstructor", "CXXDestructor"}
     \/ ret.Traits.Pure /\ BodyAtTraits \in {"defaulted", "deleted", "defined"}

\* The step whose diagnostic is expected: the earliest that rejects.
EarliestRejecting ==
  IF AccessRejects THEN "access"
  ELSE IF ConstexprRejects THEN "constexpr"
  ELSE IF VirtualRejects THEN "virtual"
  ELSE "none"

\* The diagnostics a step can emit.
DiagsOf(Step) ==
  IF Step = "access" THEN {"err_modifies_mem_spec_of_non_member"}
  ELSE IF Step = "constexpr"
  THEN {"err_declration_cannot_be_made_constexpr", "err_virtual_non_function"}
  ELSE IF Step = "virtual"
  THEN {"err_virtual_non_function", "err_cannot_make_pure_virtual"}
  ELSE {}

OverDepth ==
  {K \in 1..Len(stack) :
     /\ stack[K].fn \in {"InjectFragment", "CopyDeclaration"}
     /\ stack[K].pc # "fault"
     /\ stack[K].Inst.Invalid}

\* C22: an injection entered beyond the instantiation-depth limit reports
\* the fatal error and substitutes no declaration: a fragment injection
\* refused by the guard substitutes no member, and a copy refused by it
\* does not reach its clone step.
C22_DepthGuardEnforced ==
  /\ [](\A K \in OverDepth :
          /\ stack[K].Inst.Diags # <<>>
          /\ stack[K].fn = "InjectFragment" => stack[K].Substs = <<>>)
  /\ [][(stack # <<>> /\ Len(stack) \in OverDepth
           /\ Top.fn = "CopyDeclaration")
          => ~(ret'.fn = "CopyDeclaration" /\ ret'.Steps # <<>>)]_vars

\* A fragment injection entered beyond the limit has substituted a member.
C22_SubstitutedOverDepth ==
  \E K \in OverDepth :
    stack[K].fn = "InjectFragment" /\ stack[K].Substs # <<>>

(***************************************************************************)
(* Capture discovery                                                       *)
(***************************************************************************)

\* The longest scope chain searched.
MaxScopes == 3

\* The declarations found in scopes: besides the local variables with
\* initializers above, a local variable without one (u), a parameter with a
\* default argument (prm), a static data member or global, which is no local
\* (g), and a declaration that is no variable (t).
ScopeDecl ==
  [x   |-> [Kind |-> "Var", isLocalVarDeclOrParm |-> TRUE, hasInit |-> TRUE],
   x0  |-> [Kind |-> "Var", isLocalVarDeclOrParm |-> TRUE, hasInit |-> TRUE],
   n   |-> [Kind |-> "Var", isLocalVarDeclOrParm |-> TRUE, hasInit |-> TRUE],
   u   |-> [Kind |-> "Var", isLocalVarDeclOrParm |-> TRUE, hasInit |-> FALSE],
   prm |-> [Kind |-> "Var", isLocalVarDeclOrParm |-> TRUE, hasInit |-> TRUE],
   g   |-> [Kind |-> "Var", isLocalVarDeclOrParm |-> FALSE, hasInit |-> TRUE],
   t   |-> [Kind |-> "Typedef", isLocalVarDeclOrParm |-> FALSE,
            hasInit |-> FALSE]]

\* The scopes of a chain: what S->getEntity() is (null for a block, the
\* current function, or a context around it) and S->decls().
ScopeEntities == {"nullptr", "Fn", "Outer"}
ScopeContents == {<<>>, <<"x", "u">>, <<"t", "n">>, <<"g", "x0", "prm">>}
Scopes == [Entity : ScopeEntities, decls : ScopeContents]

\* The chains from the current scope outward, S->getParent() being the next
\* element and null after the last.
RECURSIVE ScopeChains(_)
ScopeChains(N) ==
  IF N = 1 THEN {<<S>> : S \in Scopes}
  ELSE ScopeChains(N - 1) \cup
       {Append(C, S) : C \in {L \in ScopeChains(N - 1) : Len(L) = N - 1},
                       S \in Scopes}

\* A mutation of the capture test: variables without an initializer are
\* captured too.
IsCapturedAnyLocal(D) ==
  /\ ScopeDecl[D].Kind = "Var"
  /\ ScopeDecl[D].isLocalVarDeclOrParm

\* The test of FindCapturesInScope: a VarDecl that is a local variable or
\* parameter and has an initializer.
IsCaptured(D) ==
  /\ ScopeDecl[D].Kind = "Var"
  /\ ScopeDecl[D].isLocalVarDeclOrParm
  /\ ScopeDecl[D].hasInit

\* Find variables to capture in the given scope.
RECURSIVE FindCapturesInScope(_, _, _)
FindCapturesInScope(S, Vars, I) ==
  IF I > Len(S.decls) THEN Vars
  ELSE FindCapturesInScope(
         S, IF IsCaptured(S.decls[I]) THEN Append(Vars, S.decls[I]) ELSE Vars,
         I + 1)

\* Search the scope list for captured variables: the loop runs while there
\* is a scope and its entity is not Fn; the scope it stops at, if any, is
\* searched too.
RECURSIVE FindCaptures(_, _, _, _)
FindCaptures(Chain, K, Fn, Vars) ==
  IF K <= Len(Chain) /\ Chain[K].Entity # Fn
  THEN FindCaptures(Chain, K + 1, Fn, FindCapturesInScope(Chain[K], Vars, 1))
  ELSE IF K <= Len(Chain) THEN FindCapturesInScope(Chain[K], Vars, 1)
  ELSE Vars

\* Sema::ActOnCXXFragmentCapture(Captures), with CurScope the head of the
\* chain and getCurFunctionDecl() the function Fn, null outside functions.
\* One fragment expression is parsed.
ActOnCXXFragmentCapture ==
  /\ ret = NoRet
  /\ \E Chain \in ScopeChains(MaxScopes), Fn \in {"Fn", "nullptr"} :
       LET Vars == FindCaptures(Chain, 1, Fn, <<>>) IN
       ret' = [fn |-> "ActOnCXXFragmentCapture", Chain |-> Chain, Fn |-> Fn,
               Vars |-> Vars, Captures |-> ReferenceCaptures(Vars)]
  /\ UNCHANGED <<CurContext, CurrentInjectionContext, cxts, members, invalid,
                 stack, aborted, handed>>

NextCapture == ActOnCXXFragmentCapture

SpecCapture == Init /\ [][NextCapture]_vars

\* The scope of the enclosing function in a chain: the innermost scope whose
\* entity is the function; the last scope when there is none.
FunctionScope(Chain, Fn) ==
  IF \E K \in 1..Len(Chain) : Chain[K].Entity = Fn
  THEN CHOOSE K \in 1..Len(Chain) :
         /\ Chain[K].Entity = Fn
         /\ \A J \in 1..(K - 1) : Chain[J].Entity # Fn
  ELSE Len(Chain)

\* The declarations of the first N scopes of a chain, innermost scope first.
RECURSIVE DeclsThrough(_, _)
DeclsThrough(Chain, N) ==
  IF N = 0 THEN <<>> ELSE DeclsThrough(Chain, N - 1) \o Chain[N].decls

LocalWithInit(D) ==
  /\ ScopeDecl[D].Kind = "Var"
  /\ ScopeDecl[D].isLocalVarDeclOrParm
  /\ ScopeDecl[D].hasInit

CaptureCall == ret.fn = "ActOnCXXFragmentCapture"

\* C23: capture discovery searches the scopes from the current one out to
\* and including the scope of the enclosing function and no further; it
\* collects exactly the local variables and parameters with an initializer
\* declared there, in order; the capture expressions are one per collected
\* variable in the same order, each a reference to the variable under an
\* lvalue-to-rvalue conversion.
C23_CapturesFromEnclosingScopes ==
  CaptureCall =>
    /\ ret.Fn = "Fn" =>
         ret.Vars = SelectSeq(DeclsThrough(ret.Chain,
                                           FunctionScope(ret.Chain, "Fn")),
                              LocalWithInit)
    /\ \A I \in 1..Len(ret.Vars) : LocalWithInit(ret.Vars[I])
    /\ Len(ret.Captures) = Len(ret.Vars)
    /\ \A I \in 1..Len(ret.Captures) :
         /\ ret.Captures[I].Class = "ImplicitCastExpr"
         /\ ret.Captures[I].CastKind = "CK_LValueToRValue"
         /\ ret.Captures[I].SubExpr.Class = "DeclRefExpr"
         /\ ret.Captures[I].SubExpr.Decl = ret.Vars[I]

\* A fragment in a block of a function whose scope lies inside a further
\* scope: the block holds a variable without an initializer, the function
\* scope a declaration that is no variable, the outer scope variables with
\* initializers.
C23_Witness ==
  /\ CaptureCall
  /\ ret.Fn = "Fn"
  /\ Len(ret.Chain) = 3
  /\ ret.Chain[1] = [Entity |-> "nullptr", decls |-> <<"x", "u">>]
  /\ ret.Chain[2] = [Entity |-> "Fn", decls |-> <<"t", "n">>]
  /\ ret.Chain[3].decls = <<"g", "x0", "prm">>
  /\ ret.Vars = <<"x", "n">>
  /\ Len(ret.Captures) = 2

(***************************************************************************)
(* The reflection recognizers, called on any expression type               *)
(***************************************************************************)

\* First template arguments: none, a non-type argument, an enumeration, a
\* class in a namespace, and classes nested in classes; a class or an owner
\* without an identifier (a closure type, an unnamed struct) has the name
\* nullptr.
RecognizerArgs ==
  {NoArg, [NoArg EXCEPT !.Kind = "Integral"],
   [NoArg EXCEPT !.Kind = "Type", !.Name = "parm_info"],
   [InfoArg("parm_info", "function") EXCEPT !.OwnerRecord = FALSE]} \cup
  {InfoArg(Name, OwnerName) :
     Name \in {"parm_info", "member_info", "nullptr"},
     OwnerName \in {"function", "method", "other", "nullptr"}}

\* The expression types the recognizers are asked about.
RecognizerTypes ==
  {[ReflectionType("int", FALSE, NoArg) EXCEPT
      !.Record = FALSE, !.Specialization = FALSE],
   [ReflectionType("function", TRUE, NoArg) EXCEPT !.Specialization = FALSE]}
  \cup
  {[ReflectionType(Name, TRUE, Arg) EXCEPT !.Owner = Owner] :
     Name \in {"function", "method", "parameter", "reflected_tuple"},
     Owner \in DOMAIN Namespaces, Arg \in RecognizerArgs}

\* ReferencesFunction reads the name of a class that has no identifier:
\* Class->getIdentifier() is null at line 612 or at lines 617-618.
NullIdentifierRead(E) ==
  LET Class == ReferencedReflectionClass(E) IN
  /\ ~Class.Null
  /\ Class.Name = "reflected_tuple"
  /\ Class.Arg.Kind = "Type"
  /\ Class.Arg.Record
  /\ \/ Class.Arg.Name = "nullptr"
     \/ /\ Class.Arg.Name = "parm_info"
        /\ Class.Arg.OwnerRecord
        /\ Class.Arg.OwnerName = "nullptr"

\* ReferencesFunction(SemaRef, E, RefTy) on one expression.  Reading the
\* name through a null identifier is undefined behaviour: the process
\* faults, or goes on with either answer.
CallReferencesFunction ==
  /\ ~aborted /\ ret = NoRet
  /\ \E T \in RecognizerTypes :
       LET E == [Dependent |-> FALSE, Type |-> T, Decl |-> "none"] IN
       \/ /\ NullIdentifierRead(E)
          /\ \E Fault \in BOOLEAN, Value \in BOOLEAN :
               /\ aborted' = Fault
               /\ ret' = [fn |-> "ReferencesFunction", Reflection |-> E,
                          Value |-> Value, Diags |-> <<>>]
       \/ /\ ~NullIdentifierRead(E)
          /\ aborted' = FALSE
          /\ ret' = [fn |-> "ReferencesFunction", Reflection |-> E,
                     Value |-> ReferencesFunction(E), Diags |-> <<>>]
  /\ UNCHANGED <<CurContext, CurrentInjectionContext, cxts, members, invalid,
                 stack, handed>>

\* ReferencesParameter(SemaRef, E, RefTy) on one expression.
CallReferencesParameter ==
  /\ ~aborted /\ ret = NoRet
  /\ \E T \in RecognizerTypes :
       LET E == [Dependent |-> FALSE, Type |-> T, Decl |-> "none"] IN
       ret' = [fn |-> "ReferencesParameter", Reflection |-> E,
               Value |-> ReferencesParameter(E), Diags |-> <<>>]
  /\ UNCHANGED <<CurContext, CurrentInjectionContext, cxts, members, invalid,
                 stack, aborted, handed>>

NextRecognize ==
  \/ CallReferencesFunction
  \/ CallReferencesParameter

SpecRecognize == Init /\ [][NextRecognize]_vars

\* A reflected_tuple whose first argument is a class named parm_info nested
\* directly in a class named function or method.
ParmInfoTuple(E) ==
  /\ E.Type.Name = "reflected_tuple"
  /\ E.Type.Arg.Kind = "Type" /\ E.Type.Arg.Record
  /\ E.Type.Arg.Name = "parm_info"
  /\ E.Type.Arg.OwnerRecord
  /\ E.Type.Arg.OwnerName \in {"function", "method"}

\* A specialization of a class template of the meta namespace.
MetaSpecialization(E) ==
  E.Type.Record /\ E.Type.Specialization /\ InMeta(E)

RecognizerCalled == ret.fn \in {"ReferencesFunction", "ReferencesParameter"}

\* C24: the recognizers never fault and emit nothing; outside the
\* specializations of the meta namespace (one inline namespace stripped)
\* they answer no; ReferencesFunction answers yes exactly for a
\* specialization named function and for a reflected_tuple of a parm_info
\* nested in a class named function or method; ReferencesParameter answers
\* yes exactly for a specialization named parameter; no type gets a yes from
\* both.
C24_RecognizersTolerant ==
  RecognizerCalled =>
    /\ ~aborted
    /\ ret.Diags = <<>>
    /\ ~MetaSpecialization(ret.Reflection) => ~ret.Value
    /\ ret.fn = "ReferencesFunction" =>
         ret.Value = /\ MetaSpecialization(ret.Reflection)
                     /\ \/ ret.Reflection.Type.Name = "function"
                        \/ ParmInfoTuple(ret.Reflection)
    /\ ret.fn = "ReferencesParameter" =>
         ret.Value = /\ MetaSpecialization(ret.Reflection)
                     /\ ret.Reflection.Type.Name = "parameter"
    /\ ret.Value =>
         ~(/\ ret.Reflection.Type.Name = "parameter"
           /\ \/ ret.Reflection.Type.Name = "function"
              \/ ParmInfoTuple(ret.Reflection))

\* ReferencesFunction faulted on a reflected_tuple of the meta namespace
\* whose first argument is a class without a name.
C24_FaultOnUnnamedClass ==
  /\ ret.fn = "ReferencesFunction"
  /\ aborted
  /\ MetaSpecialization(ret.Reflection)
  /\ ret.Reflection.Type.Name = "reflected_tuple"
  /\ ret.Reflection.Type.Arg.Record
  /\ ret.Reflection.Type.Arg.Name = "nullptr"

\* Where every class read has a name, the answers are as C24 says.
C24_NamedClassesRecognized ==
  (RecognizerCalled /\ ~NullIdentifierRead(ret.Reflection)) =>
    /\ ~aborted
    /\ ret.Diags = <<>>
    /\ ret.fn = "ReferencesFunction" =>
         ret.Value = /\ MetaSpecialization(ret.Reflection)
                     /\ \/ ret.Reflection.Type.Name = "function"
                        \/ ParmInfoTuple(ret.Reflection)
    /\ ret.fn = "ReferencesParameter" =>
         ret.Value = /\ MetaSpecialization(ret.Reflection)
                     /\ ret.Reflection.Type.Name = "parameter"

(***************************************************************************)
(* Sema::ActOnCXXInjectionDecl                                             *)
(***************************************************************************)

\* The most injection declarations processed.
MaxDecls == 2

\* The reflection operands of an injection declaration: a dependent one;
\* and non-dependent ones that denote a declaration or none, whose constant
\* evaluation succeeds or fails with or without notes.
DeclReflections ==
  {[Injection |-> "T", Fragment |-> FALSE, Dependent |-> TRUE,
    Evaluates |-> FALSE, Notes |-> <<>>]} \cup
  {[Injection |-> R.Injection, Fragment |-> FALSE, Dependent |-> FALSE,
    Evaluates |-> TRUE, Notes |-> <<>>] :
     R \in {X \in AnyReflections : ~X.Fragment}} \cup
  {[Injection |-> D, Fragment |-> FALSE, Dependent |-> FALSE,
    Evaluates |-> FALSE, Notes |-> N] :
     D \in {"fld", "int"}, N \in {<<>>, <<"note">>}}

\* CXXInjectionDecl::Create(Context, CurContext, Loc, Reflection), made
\* public in a class.
CXXInjectionDecl(DC) ==
  [Kind |-> "CXXInjection", DC |-> DC,
   Access |-> IF isRecord(DC) THEN "public" ELSE "none"]

\* A mutation of DeclGroupOf: the declarations are returned whatever the
\* copy's result.
DeclGroupOfDecls(Value, Decls) == Decls

\* The group ActOnCXXInjectionDecl returns after CopyDeclaration: empty when
\* the copy failed, else the declarations it appended.
DeclGroupOf(Value, Decls) == IF ~Value THEN <<>> ELSE Decls

\* What ActOnCXXInjectionDecl leaves for its caller; Copy is what the call
\* of CopyDeclaration returned, if there was one.
InjectionDeclReturn(Reflection, Group, Diags, Copy, Context, Members) ==
  [fn |-> "ActOnCXXInjectionDecl", Reflection |-> Reflection,
   Group |-> Group, Diags |-> Diags, Copy |-> Copy, Context |-> Context,
   Members |-> Members]

\* Sema::ActOnCXXInjectionDecl(Loc, Reflection) up to its return or to the
\* call of CopyDeclaration with the current context for injectee.
ActOnCXXInjectionDecl ==
  /\ ~aborted /\ stack = <<>> /\ handed < MaxDecls
  /\ handed' = handed + 1
  /\ \E Reflection \in DeclReflections :
       LET Injection == GetDeclFromReflection(Reflection.Injection)
           Done(Group, Diags) ==
             /\ ret' = InjectionDeclReturn(Reflection, Group, Diags, NoRet,
                                           CurContext, members)
             /\ UNCHANGED <<CurContext, CurrentInjectionContext, cxts, stack>>
       IN
       IF Reflection.Dependent
       THEN /\ members' = [members EXCEPT
                 ![CurContext] = Append(@, "CXXInjectionDecl")]
            /\ Done(<<CXXInjectionDecl(CurContext)>>, <<>>)
       ELSE /\ members' = members
            /\ IF Injection.Decl = "nullptr"
               THEN Done(<<>>, Injection.Diags)
               ELSE IF ~Reflection.Evaluates
               THEN Done(<<>>,
                         <<"err_not_a_reflection">> \o Reflection.Notes)
               ELSE CopyDeclarationCall(
                      <<[fn |-> "ActOnCXXInjectionDecl", pc |-> "call",
                         Reflection |-> Reflection, Context |-> CurContext,
                         Members |-> members]>>,
                      CurContext, Injection.Decl)
  /\ UNCHANGED <<invalid, aborted>>

\* CopyDeclaration has returned: the group is built from its result.
ActOnCXXInjectionDeclReturn ==
  /\ ~aborted /\ stack # <<>>
  /\ Top.fn = "ActOnCXXInjectionDecl" /\ ret.fn = "CopyDeclaration"
  /\ stack' = Pop
  /\ ret' = InjectionDeclReturn(Top.Reflection,
                                DeclGroupOf(ret.Value, ret.Decls),
                                ret.Diags, ret, Top.Context, Top.Members)
  /\ UNCHANGED <<CurContext, CurrentInjectionContext, cxts, members, invalid,
                 aborted, handed>>

NextDecl ==
  \/ ActOnCXXInjectionDecl
  \/ CopyDeclarationClone
  \/ ActOnCXXInjectionDeclReturn

SpecDecl == Init /\ [][NextDecl]_vars

InjectionDeclReturned == ret.fn = "ActOnCXXInjectionDecl"

\* The reflection denotes a declaration and evaluates.
Resolves(Reflection) ==
  Reflection.Injection \in DOMAIN SourceDecl /\ Reflection.Evaluates

\* C25: with a dependent reflection ActOnCXXInjectionDecl adds one pending
\* injection declaration to the current context, public in a class, returns
\* it and injects nothing; with a non-dependent one it returns the empty
\* group and injects nothing when the reflection denotes no declaration or
\* does not evaluate, and else copies into the current context and returns
\* the empty group when the copy fails and the declarations the copy
\* produced when it succeeds.
C25_InjectionDeclResolved ==
  InjectionDeclReturned =>
    /\ CurContext = ret.Context
    /\ ret.Reflection.Dependent =>
         /\ members = [ret.Members EXCEPT
                         ![ret.Context] = Append(@, "CXXInjectionDecl")]
         /\ Len(ret.Group) = 1
         /\ ret.Group[1].Kind = "CXXInjection"
         /\ ret.Group[1].DC = ret.Context
         /\ ContextKind[ret.Context] = "Record" =>
              ret.Group[1].Access = "public"
         /\ ret.Copy = NoRet
    /\ (~ret.Reflection.Dependent /\ ~Resolves(ret.Reflection)) =>
         /\ ret.Group = <<>>
         /\ ret.Diags # <<>>
         /\ ret.Copy = NoRet
         /\ members = ret.Members
    /\ (~ret.Reflection.Dependent /\ Resolves(ret.Reflection)) =>
         /\ ret.Copy # NoRet
         /\ ret.Copy.Injectee = ret.Context
         /\ ret.Copy.Injection = ret.Reflection.Injection
         /\ ~ret.Copy.Value => ret.Group = <<>>
         /\ ret.Copy.Value => ret.Group = ret.Copy.Decls

\* The copy of a
\* field into the class succeeded and its clone is the group.
C25_Witness ==
  /\ InjectionDeclReturned
  /\ ~ret.Reflection.Dependent
  /\ ret.Context = "C"
  /\ ret.Copy # NoRet
  /\ ret.Copy.Value
  /\ Len(ret.Group) = 1
  /\ ret.Group[1].Orig = "fld"
  /\ members["C"] = <<"fld">>

\* A dependent reflection in a class left the pending declaration.
C25_WitnessPending ==
  /\ InjectionDeclReturned
  /\ ret.Reflection.Dependent
  /\ ret.Context = "C"
  /\ members["C"] = <<"CXXInjectionDecl">>

\* The copy failed after it had appended a declaration: the group is empty.
C25_WitnessFailedCopy ==
  /\ InjectionDeclReturned
  /\ ret.Copy # NoRet
  /\ ~ret.Copy.Value
  /\ ret.Copy.Decls # <<>>
  /\ ret.Group = <<>>

\* CopyDeclaration has returned from a copy without an access trait whose
\* clone was neither null nor invalid.
NoAccessCopy ==
  /\ Cloned
  /\ ret.Traits.Access = "NoAccess"
  /\ ~ret.Result.Null /\ ~ret.Result.Invalid

\* The access the clone had when substitution returned it: the source's, or
\* that of the field a static member variable was rebuilt from.
ClonedAccess == SourceDecl[ret.Injection].Access

\* C26: CopyDeclaration without an access trait makes a clone public when
\* the injectee is a class and the clone has no access; a clone that has an
\* access, and any clone in an injectee that is no class, keeps what it has.
C26_DefaultAccessPublic ==
  NoAccessCopy =>
    /\ (ContextKind[ret.Injectee] = "Record" /\ ClonedAccess = "none") =>
         ret.Result.Access = "public"
    /\ (ContextKind[ret.Injectee] # "Record" \/ ClonedAccess # "none") =>
         ret.Result.Access = ClonedAccess

\* A member function without an access was copied into the class.
C26_Witness ==
  /\ NoAccessCopy
  /\ ret.Value
  /\ ret.Injectee = "C"
  /\ ClonedAccess = "none"
  /\ ret.Result.Access = "public"

\* A private field copied into the class stayed private.
C26_WitnessKept ==
  /\ NoAccessCopy
  /\ ret.Injectee = "C"
  /\ ClonedAccess = "private"
  /\ ret.Result.Access = "private"

\* A variable copied into the translation unit still has no access.
C26_WitnessNonClass ==
  /\ NoAccessCopy
  /\ ret.Injectee = "TU"
  /\ ret.Result.Access = "none"

\* CopyDeclaration has returned from a copy with make_pure set and
\* make_virtual clear.
PureOnlyCopy ==
  /\ Cloned
  /\ ret.Traits.Pure /\ ~ret.Traits.Virtual

\* What the copy that returned comes to from each clone substitution can
\* give it, under the traits given.
CopyResults(Traits) ==
  {CopyAfterClone(
     IF SourceDecl[ret.Injection].Kind = "Field" /\ Traits.Storage = "Static"
     THEN RewriteAsStaticMemberVariable(ret.Injection, ret.Injectee,
                                        CurrentCxt, Outcome)
     ELSE SubstDecl(ret.Injection, ret.Injectee, CurrentCxt, Outcome),
     Traits, ret.Injection, ret.Injectee, ret.Before.invalid, UB) :
   Outcome \in SubstOutcomes(ret.Injection), UB \in {"crash", "dropped"}}

\* C28: in a copy with make_pure set and make_virtual clear the virtual step
\* does nothing: it never ends the copy, there is no
\* err_cannot_make_pure_virtual, the clone is neither virtual nor pure, and
\* the copy comes to what it comes to with make_pure clear.
C28_PureIgnoredWithoutVirtual ==
  PureOnlyCopy =>
    /\ \A I \in 1..Len(ret.Diags) :
         ret.Diags[I] # "err_cannot_make_pure_virtual"
    /\ ret.Steps # <<"clone", "access", "constexpr", "virtual">>
    /\ ~ret.Result.Null =>
         ~ret.Result.VirtualAsWritten /\ ~ret.Result.Pure
    /\ CopyResults(ret.Traits) =
         CopyResults([ret.Traits EXCEPT !.Pure = FALSE])

\* A defaulted member function, which cannot be made pure, was copied with
\* make_pure alone: the copy succeeded.
C28_Witness ==
  /\ PureOnlyCopy
  /\ ret.Value
  /\ ret.Result.Kind = "CXXMethod"
  /\ ret.Result.Body = "defaulted"
  /\ ret.Diags = <<>>
  /\ ret.Decls = <<ret.Result>>

\* CopyDeclaration has returned from its last statement: every step ran.
CopiedThrough ==
  /\ Cloned
  /\ ret.Steps[Len(ret.Steps)] = "update"

\* CopyDeclaration has returned from a call made when the injectee was
\* already marked invalid.
CopiedIntoInvalid == Returned({"CopyDeclaration"}) /\ ret.Before.invalid

\* The copy effect that has just returned is counted as failed: the run's
\* result is false from here on and the effect is logged as failed.
CountedAsFailed ==
  /\ Len(stack') = Len(stack)
  /\ ~stack'[Len(stack')].Ok
  /\ ~stack'[Len(stack')].Log[Len(stack'[Len(stack')].Log)].Result

\* The caller of the copy that has just returned takes its result.
CopyEffectTaken ==
  /\ stack # <<>>
  /\ Top.fn = "ApplyEffects" /\ Top.pc = "call"
  /\ ret' = NoRet

\* C27 as stated: a copy that ran through returns the negation of the
\* injectee's invalid flag and has appended its clone; every copy into an
\* injectee already marked invalid returns false; and ApplyEffects counts
\* every such copy effect as failed.
C27_InvalidInjecteeFailsCopies ==
  /\ [](CopiedThrough => /\ ret.Value = ~invalid[ret.Injectee]
                         /\ ret.Decls = <<ret.Result>>)
  /\ [](CopiedIntoInvalid => ~ret.Value)
  /\ [][(CopiedIntoInvalid /\ CopyEffectTaken) => CountedAsFailed]_vars

\* C27, amended: the same, except for the copy of an injected-class-name,
\* which returns true before anything is looked at and is counted as
\* applied, also into an injectee marked invalid.
C27_InvalidInjecteeFailsCopiesButInjectedClassName ==
  /\ [](CopiedThrough => /\ ret.Value = ~invalid[ret.Injectee]
                         /\ ret.Decls = <<ret.Result>>)
  /\ [](CopiedIntoInvalid => (ret.Value = IsICN(ret.Injection)))
  /\ [][(CopiedIntoInvalid /\ CopyEffectTaken /\ ~IsICN(ret.Injection))
          => CountedAsFailed]_vars

\* A copy whose clone and traits succeeded returned false, its clone
\* appended, because an earlier effect had marked the injectee invalid.
C27_Witness ==
  /\ CopiedThrough
  /\ CopiedIntoInvalid
  /\ ~ret.Value
  /\ ~ret.Result.Null /\ ~ret.Result.Invalid
  /\ ret.Decls = <<ret.Result>>
  /\ stack # <<>> /\ Top.fn = "ApplyEffects" /\ Top.I = 2

\* The copy of an injected-class-name into an injectee marked invalid
\* returned true.
C27_InjectedClassNameIntoInvalid ==
  /\ CopiedIntoInvalid
  /\ IsICN(ret.Injection)
  /\ ret.Value

=============================================================================
